---- MODULE Spec2Model ----
(***************************************************************************)
(* Model of the historical navigation engine of below:                     *)
(*   resctl/below/store/src/advance_new.rs                                 *)
(* The Store trait (single seek, paired seek), the in-memory FakeStore     *)
(* that implements it, and the Advance cursor.                             *)
(*                                                                         *)
(* Time is counted in whole seconds, the "time unit" of the seek contract  *)
(* (Duration::from_secs(1), Duration::as_secs).  A SystemTime is the       *)
(* record [secs |-> n], n seconds after UNIX_EPOCH; a stored sample of the *)
(* FakeStore is the u64 timestamp at which it was captured.                *)
(***************************************************************************)
EXTENDS Integers, Sequences, FiniteSets, TLC

\* Stored capture timestamps range over 1..MaxTime, queries over 0..MaxTime+1.
MaxTime == 4
\* Largest number of samples in the series.
MaxLen == 3

Forward == "Forward"
Reverse == "Reverse"
Direction == {Forward, Reverse}

\* Option<T>: None is the empty sequence, Some(x) the one-element sequence.
None == <<>>
Some(x) == <<x>>

\* Result<T>: Ok(v) or Err (the FakeStore's bail!("error")).
Ok(v) == [ok |-> TRUE, val |-> v]
Err == [ok |-> FALSE, val |-> None]

\* util::get_system_time(u64) -> SystemTime: UNIX_EPOCH + n seconds.
get_system_time(n) == [secs |-> n]
\* util::get_unix_timestamp(SystemTime) -> u64: whole seconds since UNIX_EPOCH.
get_unix_timestamp(t) == t.secs

\* SystemTime - Duration::from_secs(d)
time_sub(t, d) == [secs |-> t.secs - d]

\* Query timestamps a caller may pass.
QueryTimes == {get_system_time(n) : n \in 0..(MaxTime + 1)}

\* The series a store may hold: Vec<u64> kept sorted (FakeStore::new sorts it),
\* one sample per capture timestamp.
SortedSeries ==
  {s \in UNION {[1..n -> 1..MaxTime] : n \in 0..MaxLen} :
     \A i \in 1..(Len(s) - 1) : s[i] < s[i + 1]}

VARIABLES
  sample,            \* FakeStore.sample
  raise_error,       \* FakeStore.raise_error
  seek_errors,       \* the seconds at which a seek of the store returns Err
  cached_sample,     \* Advance.cached_sample : Option<FrameType>
  target_timestamp,  \* Advance.target_timestamp : SystemTime
  current_direction, \* Advance._current_direction
  initialized,       \* the caller has called initialize() at least once
  panicked,          \* an assert!/expect aborted the program
  last,              \* the last operation: its arguments, result and store queries
  view_state,        \* the Cursive user data: ViewState
  refreshes,         \* refresh(c) calls made by the last view callback
  main_view_stack,   \* the layers of "main_view_stack", back to front
  exit_data,         \* Collector.exit_data: the PidMap behind the mutex
  mutex,             \* the holder of the mutex of exit_data
  prod_pc,           \* the position of the process-exit observer
  coll_pc,           \* the position of collect_sample
  coll_args,         \* the arguments of the collect_sample call in progress
  exit_pidmap,       \* the local exit_pidmap of collect_sample
  collected,         \* the last completed collect_sample call and its result
  inserted,          \* entries the observer has inserted so far
  obtained,          \* per inserted entry, the drains that obtained it
  clock,             \* the monotonic clock read by Instant::now()
  coll_last,         \* Collector.last : Option<(Sample, Instant)>
  coll_now,          \* the local now of the update_model call in progress
  updates,           \* the update_model calls completed so far, in order
  calc               \* the last application of a combinator or rate macro

vars == <<sample, raise_error, seek_errors, cached_sample, target_timestamp,
          current_direction, initialized, panicked, last,
          view_state, refreshes, main_view_stack, exit_data, mutex, prod_pc, coll_pc,
          coll_args, exit_pidmap, collected, inserted, obtained,
          clock, coll_last, coll_now, updates, calc>>

store_vars == <<sample, raise_error, seek_errors>>
cursor_vars == <<cached_sample, target_timestamp, current_direction>>
view_vars == <<view_state, refreshes, main_view_stack>>
model_vars == <<clock, coll_last, coll_now, updates, calc>>
collector_vars == <<exit_data, mutex, prod_pc, coll_pc, coll_args,
                    exit_pidmap, collected, inserted, obtained, model_vars>>

\* slice::binary_search over a sorted Vec, zero-based half-open range [lo, hi):
\* found with the index of a match, or not found with the insertion index.
RECURSIVE bisect(_, _, _, _)
bisect(v, x, lo, hi) ==
  IF lo >= hi THEN [found |-> FALSE, idx |-> lo]
  ELSE LET mid == lo + ((hi - lo) \div 2) IN
       IF v[mid + 1] = x THEN [found |-> TRUE, idx |-> mid]
       ELSE IF v[mid + 1] < x THEN bisect(v, x, mid + 1, hi)
       ELSE bisect(v, x, lo, mid)

binary_search(v, x) == bisect(v, x, 0, Len(v))

\* Mutant: the Forward corner case rejects the last stored timestamp too.
get_sample_at_timestamp_fwd_ge(timestamp, direction) ==
  IF raise_error \/ get_unix_timestamp(timestamp) \in seek_errors THEN Err
  ELSE LET ts == get_unix_timestamp(timestamp) IN
    IF \/ sample = <<>>
       \/ (ts < sample[1] /\ direction = Reverse)
       \/ (ts >= sample[Len(sample)] /\ direction = Forward)
    THEN Ok(None)
    ELSE LET r == binary_search(sample, ts) IN
      IF r.found THEN Ok(Some(<<get_system_time(ts), ts>>))
      ELSE IF direction = Reverse
           THEN Ok(Some(<<get_system_time(sample[r.idx]), sample[r.idx]>>))
           ELSE Ok(Some(<<get_system_time(sample[r.idx + 1]), sample[r.idx + 1]>>))

\* Mutant: a Reverse seek between two samples reports the query time as the
\* sample's timestamp.
get_sample_at_timestamp_rev_query_ts(timestamp, direction) ==
  IF raise_error \/ get_unix_timestamp(timestamp) \in seek_errors THEN Err
  ELSE LET ts == get_unix_timestamp(timestamp) IN
    IF \/ sample = <<>>
       \/ (ts < sample[1] /\ direction = Reverse)
       \/ (ts > sample[Len(sample)] /\ direction = Forward)
    THEN Ok(None)
    ELSE LET r == binary_search(sample, ts) IN
      IF r.found THEN Ok(Some(<<get_system_time(ts), ts>>))
      ELSE IF direction = Reverse
           THEN Ok(Some(<<get_system_time(ts), sample[r.idx]>>))
           ELSE Ok(Some(<<get_system_time(sample[r.idx + 1]), sample[r.idx + 1]>>))

\* Mutant: the Reverse corner case rejects the first stored timestamp too.
get_sample_at_timestamp_rev_le(timestamp, direction) ==
  IF raise_error \/ get_unix_timestamp(timestamp) \in seek_errors THEN Err
  ELSE LET ts == get_unix_timestamp(timestamp) IN
    IF \/ sample = <<>>
       \/ (ts <= sample[1] /\ direction = Reverse)
       \/ (ts > sample[Len(sample)] /\ direction = Forward)
    THEN Ok(None)
    ELSE LET r == binary_search(sample, ts) IN
      IF r.found THEN Ok(Some(<<get_system_time(ts), ts>>))
      ELSE IF direction = Reverse
           THEN Ok(Some(<<get_system_time(sample[r.idx]), sample[r.idx]>>))
           ELSE Ok(Some(<<get_system_time(sample[r.idx + 1]), sample[r.idx + 1]>>))

\* FakeStore::get_sample_at_timestamp.  v[i + 1] is the Rust element v[i].
get_sample_at_timestamp(timestamp, direction) ==
  IF raise_error \/ get_unix_timestamp(timestamp) \in seek_errors THEN Err
  ELSE LET ts == get_unix_timestamp(timestamp) IN
    IF \/ sample = <<>>
       \/ (ts < sample[1] /\ direction = Reverse)
       \/ (ts > sample[Len(sample)] /\ direction = Forward)
    THEN Ok(None)
    ELSE LET r == binary_search(sample, ts) IN
      IF r.found THEN Ok(Some(<<get_system_time(ts), ts>>))
      ELSE IF direction = Reverse
           THEN Ok(Some(<<get_system_time(sample[r.idx]), sample[r.idx]>>))
           ELSE Ok(Some(<<get_system_time(sample[r.idx + 1]), sample[r.idx + 1]>>))

\* One store query, as recorded in last.queries.
Query(timestamp, direction) == [ts |-> timestamp, dir |-> direction]

\* Mutant: an error of the store is turned into None without being logged.
extract_sample_and_log_silent(timestamp, direction) ==
  LET res == get_sample_at_timestamp(timestamp, direction) IN
  [val |-> IF res.ok THEN res.val ELSE None, logs |-> 0]

\* Store::extract_sample_and_log: the value of the store's answer, an error
\* being logged and turned into None.  logs counts the error! calls.
extract_sample_and_log(timestamp, direction) ==
  LET res == get_sample_at_timestamp(timestamp, direction) IN
  IF res.ok THEN [val |-> res.val, logs |-> 0]
  ELSE [val |-> None, logs |-> 1]

\* Mutant: the package starts with a duration of one second.
res_package_new_one_sec(target_ts, target_sample) ==
  [older_sample |-> None, newer_sample |-> target_sample,
   timestamp |-> target_ts, duration |-> 1]

\* The package as first built from the target alone (res_package).
res_package_new(target_ts, target_sample) ==
  [older_sample |-> None, newer_sample |-> target_sample,
   timestamp |-> target_ts, duration |-> 0]

\* Mutant: the older sample is sought forward from one second before the
\* target.
older_query_forward(target_ts) == Query(time_sub(target_ts, 1), Forward)

\* Mutant: the older sample is sought at the target's own timestamp.
older_query_at_target(target_ts) == Query(target_ts, Reverse)

\* The query for the sample before the target: one second before the
\* target's timestamp, in Reverse.
older_query(target_ts) == Query(time_sub(target_ts, 1), Reverse)

\* Mutant: the package is stamped with the query timestamp instead of the
\* target's actual timestamp.
get_adjacent_sample_at_timestamp_query_ts(timestamp, direction) ==
  LET target == extract_sample_and_log(timestamp, direction)
      q1 == Query(timestamp, direction)
  IN
  IF target.val = None
  THEN [panic |-> FALSE, val |-> None, queries |-> <<q1>>, logs |-> target.logs]
  ELSE
    LET target_ts == target.val[1][1]
        target_sample == target.val[1][2]
        res_package == res_package_new(timestamp, target_sample)
        q2 == older_query(res_package.timestamp)
        older == extract_sample_and_log(q2.ts, q2.dir)
        logs == target.logs + older.logs
    IN
    IF older.val = None
    THEN [panic |-> FALSE, val |-> Some(res_package),
          queries |-> <<q1, q2>>, logs |-> logs]
    ELSE
      LET older_ts == older.val[1][1]
          older_sample == older.val[1][2]
      IN
      IF older_ts.secs > res_package.timestamp.secs
      THEN [panic |-> TRUE, val |-> None, queries |-> <<q1, q2>>, logs |-> logs]
      ELSE [panic |-> FALSE,
            val |-> Some([res_package EXCEPT
                            !.older_sample = Some(older_sample),
                            !.duration = res_package.timestamp.secs - older_ts.secs]),
            queries |-> <<q1, q2>>, logs |-> logs]

\* Mutant: the target is sought one second before the given timestamp.
get_adjacent_sample_at_timestamp_step_back(timestamp, direction) ==
  LET target == extract_sample_and_log(time_sub(timestamp, 1), direction)
      q1 == Query(timestamp, direction)
  IN
  IF target.val = None
  THEN [panic |-> FALSE, val |-> None, queries |-> <<q1>>, logs |-> target.logs]
  ELSE
    LET target_ts == target.val[1][1]
        target_sample == target.val[1][2]
        res_package == res_package_new(target_ts, target_sample)
        q2 == older_query(res_package.timestamp)
        older == extract_sample_and_log(q2.ts, q2.dir)
        logs == target.logs + older.logs
    IN
    IF older.val = None
    THEN [panic |-> FALSE, val |-> Some(res_package),
          queries |-> <<q1, q2>>, logs |-> logs]
    ELSE
      LET older_ts == older.val[1][1]
          older_sample == older.val[1][2]
      IN
      IF older_ts.secs > res_package.timestamp.secs
      THEN [panic |-> TRUE, val |-> None, queries |-> <<q1, q2>>, logs |-> logs]
      ELSE [panic |-> FALSE,
            val |-> Some([res_package EXCEPT
                            !.older_sample = Some(older_sample),
                            !.duration = res_package.timestamp.secs - older_ts.secs]),
            queries |-> <<q1, q2>>, logs |-> logs]

\* Store::get_adjacent_sample_at_timestamp.  The result carries the returned
\* Option<SamplePackage>, the store queries issued, the errors logged and
\* whether expect("time went backwards") aborted.
get_adjacent_sample_at_timestamp(timestamp, direction) ==
  LET target == extract_sample_and_log(timestamp, direction)
      q1 == Query(timestamp, direction)
  IN
  IF target.val = None
  THEN [panic |-> FALSE, val |-> None, queries |-> <<q1>>, logs |-> target.logs]
  ELSE
    LET target_ts == target.val[1][1]
        target_sample == target.val[1][2]
        res_package == res_package_new(target_ts, target_sample)
        q2 == older_query(res_package.timestamp)
        older == extract_sample_and_log(q2.ts, q2.dir)
        logs == target.logs + older.logs
    IN
    IF older.val = None
    THEN [panic |-> FALSE, val |-> Some(res_package),
          queries |-> <<q1, q2>>, logs |-> logs]
    ELSE
      LET older_ts == older.val[1][1]
          older_sample == older.val[1][2]
      IN
      IF older_ts.secs > res_package.timestamp.secs
      THEN [panic |-> TRUE, val |-> None, queries |-> <<q1, q2>>, logs |-> logs]
      ELSE [panic |-> FALSE,
            val |-> Some([res_package EXCEPT
                            !.older_sample = Some(older_sample),
                            !.duration = res_package.timestamp.secs - older_ts.secs]),
            queries |-> <<q1, q2>>, logs |-> logs]

\* Model::new(timestamp, sample, last): the Model Builder is outside this
\* module; a Model is represented by the arguments it was built from.
Model_new(timestamp, smpl, lst) ==
  [timestamp |-> timestamp, sample |-> smpl, last |-> lst]

\* Mutant: the Model is always built without a predecessor.
SamplePackage_to_model_alone(pkg) ==
  Model_new(pkg.timestamp, pkg.newer_sample, None)

\* Mutant: a package without an older sample pairs the newer one with itself.
SamplePackage_to_model_self(pkg) ==
  Model_new(pkg.timestamp, pkg.newer_sample,
            Some(<<IF pkg.older_sample /= None THEN pkg.older_sample[1]
                   ELSE pkg.newer_sample,
                   pkg.duration>>))

\* SamplePackage::to_model.
SamplePackage_to_model(pkg) ==
  IF pkg.older_sample /= None
  THEN Model_new(pkg.timestamp, pkg.newer_sample,
                 Some(<<pkg.older_sample[1], pkg.duration>>))
  ELSE Model_new(pkg.timestamp, pkg.newer_sample, None)

\* FakeStore::to_model: the string "older_newer_timestamp_duration" or
\* "newer_timestamp", represented by the sequence of its numbers.
to_model(pkg) ==
  IF pkg.older_sample /= None
  THEN Some(<<pkg.older_sample[1], pkg.newer_sample,
              get_unix_timestamp(pkg.timestamp), pkg.duration>>)
  ELSE Some(<<pkg.newer_sample, get_unix_timestamp(pkg.timestamp)>>)

\* LocalStore::to_model / RemoteStore::to_model
LocalStore_to_model(pkg) == Some(SamplePackage_to_model(pkg))

\* The record of an operation: its name and arguments, what it returned, the
\* store queries it issued in order, the number of errors it logged, whether
\* it aborted, and for a paired seek the models made from the package.
Op(name, timestamp, direction, ret, queries, logs, panic) ==
  [op |-> name, ts |-> timestamp, dir |-> direction, ret |-> ret,
   queries |-> queries, logs |-> logs, panic |-> panic,
   model |-> None, built |-> None]

\* The Model a View is constructed with, built before any advance: of no
\* stored sample.
InitialModel == <<0, 0>>

\* View::new(model)
View_new(model) ==
  [model |-> model,
   sort_order |-> "PID",
   collapsed_cgroups |-> {},
   current_selected_cgroup |-> "<root>",
   main_view_state |-> <<"Cgroup">>,
   cgroup_filter |-> None,
   process_filter |-> None]

\* The StackView named "main_view_stack" as View::run builds it: the process
\* panel added first, the cgroup panel added over it.
MainViewStack_new == <<"process_view_panel", "cgroup_view_panel">>

\* get_advance_with_fake_store(timestamp) over a FakeStore holding any series,
\* and the View registered with it.
\* Most insertions of the process-exit observer in one run.
MaxInserts == 2

\* A PidMap with no entry.
EmptyPidMap == <<>>

\* Collector::new_with_cgroup_root: the exit buffer is empty, nobody holds its
\* mutex, neither the observer nor collect_sample has started.
Collector_new ==
  /\ exit_data = EmptyPidMap
  /\ mutex = "free"
  /\ prod_pc = [at |-> "idle", pid |-> 0]
  /\ coll_pc = "idle"
  /\ coll_args = None
  /\ exit_pidmap = EmptyPidMap
  /\ collected = None
  /\ inserted = 0
  /\ obtained = [n \in 1..MaxInserts |-> 0]
  /\ clock = 0
  /\ coll_last = None
  /\ coll_now = None
  /\ updates = <<>>
  /\ calc = None

Init ==
  /\ sample \in SortedSeries
  /\ raise_error = FALSE
  /\ seek_errors = {}
  /\ cached_sample = None
  /\ target_timestamp \in QueryTimes
  /\ current_direction = Forward
  /\ initialized = FALSE
  /\ panicked = FALSE
  /\ last = Op("new", target_timestamp, Forward, None, <<>>, 0, FALSE)
  /\ view_state = View_new(InitialModel)
  /\ refreshes = 0
  /\ main_view_stack = MainViewStack_new
  /\ Collector_new

\* FakeStore::raise_error
RaiseError ==
  /\ ~panicked
  /\ ~raise_error
  /\ raise_error' = TRUE
  /\ last' = Op("raise_error", target_timestamp, Forward, None, <<>>, 0, FALSE)
  /\ UNCHANGED <<sample, seek_errors, cursor_vars, initialized, panicked,
                 view_vars, collector_vars>>

\* A caller's single seek: store.get_sample_at_timestamp(timestamp, direction).
Seek(timestamp, direction) ==
  /\ ~panicked
  /\ last' = Op("seek", timestamp, direction,
                get_sample_at_timestamp(timestamp, direction),
                <<Query(timestamp, direction)>>, 0, FALSE)
  /\ UNCHANGED <<store_vars, cursor_vars, initialized, panicked, view_vars, collector_vars>>

\* A caller's paired seek followed by to_model on the package.
Adjacent(timestamp, direction) ==
  /\ ~panicked
  /\ LET r == get_adjacent_sample_at_timestamp(timestamp, direction) IN
     /\ panicked' = r.panic
     /\ last' = [Op("adjacent", timestamp, direction, r.val, r.queries,
                    r.logs, r.panic)
                  EXCEPT !.model = IF r.val /= None THEN to_model(r.val[1])
                                   ELSE None,
                         !.built = IF r.val /= None
                                   THEN LocalStore_to_model(r.val[1])
                                   ELSE None]
  /\ UNCHANGED <<store_vars, cursor_vars, initialized, view_vars, collector_vars>>

\* Mutant: a found sample is cached but target_timestamp keeps the query time.
initialize_keeps_start ==
  /\ ~panicked
  /\ IF cached_sample /= None
     THEN /\ panicked' = TRUE
          /\ last' = Op("initialize", target_timestamp, Forward, None, <<>>,
                        0, TRUE)
          /\ UNCHANGED <<store_vars, cursor_vars, initialized, view_vars, collector_vars>>
     ELSE LET r == extract_sample_and_log(target_timestamp, Forward) IN
          /\ IF r.val /= None
             THEN /\ cached_sample' = Some(r.val[1][2])
                  /\ UNCHANGED target_timestamp
             ELSE UNCHANGED <<cached_sample, target_timestamp>>
          /\ initialized' = TRUE
          /\ last' = Op("initialize", target_timestamp, Forward, None,
                        <<Query(target_timestamp, Forward)>>, r.logs, FALSE)
          /\ UNCHANGED <<store_vars, current_direction, panicked, view_vars, collector_vars>>

\* Mutant: when nothing is found target_timestamp falls back to the epoch.
initialize_resets_start ==
  /\ ~panicked
  /\ IF cached_sample /= None
     THEN /\ panicked' = TRUE
          /\ last' = Op("initialize", target_timestamp, Forward, None, <<>>,
                        0, TRUE)
          /\ UNCHANGED <<store_vars, cursor_vars, initialized, view_vars, collector_vars>>
     ELSE LET r == extract_sample_and_log(target_timestamp, Forward) IN
          /\ IF r.val /= None
             THEN /\ cached_sample' = Some(r.val[1][2])
                  /\ target_timestamp' = r.val[1][1]
             ELSE /\ UNCHANGED cached_sample
                  /\ target_timestamp' = get_system_time(0)
          /\ initialized' = TRUE
          /\ last' = Op("initialize", target_timestamp, Forward, None,
                        <<Query(target_timestamp, Forward)>>, r.logs, FALSE)
          /\ UNCHANGED <<store_vars, current_direction, panicked, view_vars, collector_vars>>

\* Mutant: no assertion, a populated cursor is initialized again.
initialize_no_assert ==
  /\ ~panicked
  /\ LET r == extract_sample_and_log(target_timestamp, Forward) IN
     /\ IF r.val /= None
        THEN /\ cached_sample' = Some(r.val[1][2])
             /\ target_timestamp' = r.val[1][1]
        ELSE UNCHANGED <<cached_sample, target_timestamp>>
     /\ initialized' = TRUE
     /\ last' = Op("initialize", target_timestamp, Forward, None,
                   <<Query(target_timestamp, Forward)>>, r.logs, FALSE)
     /\ UNCHANGED <<store_vars, current_direction, panicked, view_vars, collector_vars>>

\* Advance::initialize
initialize ==
  /\ ~panicked
  /\ IF cached_sample /= None
     THEN \* assert!(self.cached_sample.is_none()) fails
          /\ panicked' = TRUE
          /\ last' = Op("initialize", target_timestamp, Forward, None, <<>>,
                        0, TRUE)
          /\ UNCHANGED <<store_vars, cursor_vars, initialized, view_vars, collector_vars>>
     ELSE LET r == extract_sample_and_log(target_timestamp, Forward) IN
          /\ IF r.val /= None
             THEN /\ cached_sample' = Some(r.val[1][2])
                  /\ target_timestamp' = r.val[1][1]
             ELSE UNCHANGED <<cached_sample, target_timestamp>>
          /\ initialized' = TRUE
          /\ last' = Op("initialize", target_timestamp, Forward, None,
                        <<Query(target_timestamp, Forward)>>, r.logs, FALSE)
          /\ UNCHANGED <<store_vars, current_direction, panicked, view_vars, collector_vars>>

\* Advance::advance(direction), after the design's section 4.4: the paired
\* seek at target_timestamp in the direction; absent leaves the cursor as it
\* is, a package moves the cursor to the target and yields its Model.
advance(direction) ==
  /\ ~panicked
  /\ initialized
  /\ LET r == get_adjacent_sample_at_timestamp(target_timestamp, direction) IN
     IF r.panic
     THEN /\ panicked' = TRUE
          /\ last' = Op("advance", target_timestamp, direction, None,
                        r.queries, r.logs, TRUE)
          /\ UNCHANGED <<store_vars, cursor_vars, initialized, collector_vars>>
     ELSE IF r.val = None
     THEN /\ last' = Op("advance", target_timestamp, direction, None,
                        r.queries, r.logs, FALSE)
          /\ UNCHANGED <<store_vars, cursor_vars, initialized, panicked,
                       collector_vars>>
     ELSE /\ cached_sample' = Some(r.val[1].newer_sample)
          /\ target_timestamp' = r.val[1].timestamp
          /\ current_direction' = direction
          /\ last' = [Op("advance", target_timestamp, direction,
                         to_model(r.val[1]), r.queries, r.logs, FALSE)
                       EXCEPT !.model = to_model(r.val[1]),
                              !.built = LocalStore_to_model(r.val[1])]
          /\ UNCHANGED <<store_vars, initialized, panicked, collector_vars>>

\* Mutant: the view is refreshed whether or not advance returned a Model.
advance_macro_always_refresh(direction) ==
  /\ advance(direction)
  /\ IF last'.ret /= None
     THEN /\ view_state' = [view_state EXCEPT !.model = last'.ret[1]]
          /\ refreshes' = 1
     ELSE /\ view_state' = view_state
          /\ refreshes' = 1
  /\ UNCHANGED main_view_stack

\* advance!(c, adv, dir): a Model returned by advance replaces
\* ViewState.model and the views are refreshed; None does nothing.
advance_macro(direction) ==
  /\ advance(direction)
  /\ IF last'.ret /= None
     THEN /\ view_state' = [view_state EXCEPT !.model = last'.ret[1]]
          /\ refreshes' = 1
     ELSE /\ view_state' = view_state
          /\ refreshes' = 0
  /\ UNCHANGED main_view_stack

\* View::register_advance: the global callbacks of 't' and 'T'.
on_key_t == advance_macro(Forward)
on_key_shift_t == advance_macro(Reverse)

Next ==
  \/ RaiseError
  \/ \E t \in QueryTimes, d \in Direction : Seek(t, d)
  \/ \E t \in QueryTimes, d \in Direction : Adjacent(t, d)
  \/ initialize
  \/ on_key_t
  \/ on_key_shift_t

Spec == Init /\ [][Next]_vars

\* The seeks that may fail in one store: a LocalStore whose file for a time
\* cannot be read, a RemoteStore whose request for it fails.
MaxSeekErrors == 1

SeekErrorSets ==
  {e \in SUBSET (0..(MaxTime + 1)) : Cardinality(e) <= MaxSeekErrors}

\* A store that answers Err to the seeks at some timestamps, under a cursor
\* that has not been initialized.
InitSeekErrors ==
  /\ sample \in SortedSeries
  /\ raise_error = FALSE
  /\ seek_errors \in SeekErrorSets
  /\ cached_sample = None
  /\ target_timestamp \in QueryTimes
  /\ current_direction = Forward
  /\ initialized = FALSE
  /\ panicked = FALSE
  /\ last = Op("new", target_timestamp, Forward, None, <<>>, 0, FALSE)
  /\ view_state = View_new(InitialModel)
  /\ refreshes = 0
  /\ main_view_stack = MainViewStack_new
  /\ Collector_new

\* One paired seek or one initialize over the store as constructed.
NextSeekErrors ==
  \/ last.op = "new" /\ \E t \in QueryTimes, d \in Direction : Adjacent(t, d)
  \/ last.op = "new" /\ initialize

SpecSeekErrors == InitSeekErrors /\ [][NextSeekErrors]_vars

----------------------------------------------------------------------------
(***************************************************************************)
(* Snapshot acquisition: below/model/src/collector.rs.                     *)
(* The Raw Reader is the environment: every read has an outcome, Ok(value) *)
(* or an error.  A cgroupfs::Error is IoError(path, io::Error) with the    *)
(* io::Error's kind and errno, InvalidFileFormat or UnexpectedLine.        *)
(***************************************************************************)

\* Most reads of one collection that fail to give their healthy value.
MaxCgroupFaults == 1

\* Err(e) of a read.
Fail(e) == [ok |-> FALSE, err |-> e]

IoError(kind, errno) == [variant |-> "IoError", kind |-> kind, errno |-> errno]
NotFoundError == IoError("NotFound", 2)
NoDeviceError == IoError("Other", 19)
OtherIoError == IoError("Other", 5)
InvalidFileFormat == [variant |-> "InvalidFileFormat", kind |-> "", errno |-> 0]
UnexpectedLine == [variant |-> "UnexpectedLine", kind |-> "", errno |-> 0]

CgroupErrors == {NotFoundError, NoDeviceError, OtherIoError,
                 InvalidFileFormat, UnexpectedLine}

\* The cgroup hierarchy on disk: the root <<>> with children a and b, and c
\* under a.  A cgroup is named by its path relative to the root.
CgroupChildren(path) ==
  IF path = <<>> THEN <<"a", "b">>
  ELSE IF path = <<"a">> THEN <<"c">>
  ELSE <<>>

CgroupPaths == {<<>>, <<"a">>, <<"b">>, <<"a", "c">>}

\* The reads of collect_cgroup_sample at one node, in the order the code
\* evaluates them.
CgroupReads == <<"io_stat", "cpu_stat", "memory_current", "memory_stat",
                 "pressure", "children", "memory_swap_current", "memory_high",
                 "memory_events", "inode_number">>

\* What a read of the reader gives when nothing goes wrong.
HealthyRead(path, name) ==
  IF name = "children" THEN Ok(CgroupChildren(path))
  ELSE Ok(name)

\* The outcomes other than the healthy one that a read can have.
FaultOutcomes(name) == {Fail(e) : e \in CgroupErrors}

\* A fault: the read `read` of the cgroup at `path` has outcome `out`.
CgroupFaults ==
  UNION {{[path |-> p, read |-> CgroupReads[i], out |-> o] :
            o \in FaultOutcomes(CgroupReads[i])} :
         p \in CgroupPaths, i \in 1..Len(CgroupReads)}

\* The sets of at most k faults, one at most per read.
RECURSIVE FaultSets(_)
FaultSets(k) ==
  IF k = 0 THEN {{}}
  ELSE LET smaller == FaultSets(k - 1) IN
       smaller \cup
       {fs \cup {f} : fs \in smaller, f \in CgroupFaults}

\* The states of the cgroup file system.
CgroupFileSystems ==
  {fs \in FaultSets(MaxCgroupFaults) :
     \A f, g \in fs : (f.path = g.path /\ f.read = g.read) => f = g}

\* reader.read_*() of the cgroup at path.
read_cgroup(fs, path, name) ==
  IF \E f \in fs : f.path = path /\ f.read = name
  THEN (CHOOSE f \in fs : f.path = path /\ f.read = name).out
  ELSE HealthyRead(path, name)

\* Mutant: only NotFound becomes Ok(None).
wrap_not_found_only(v) ==
  IF ~v.ok /\ v.err.variant = "IoError" /\ v.err.kind = "NotFound"
  THEN Ok(None)
  ELSE IF v.ok THEN Ok(Some(v.val)) ELSE v

\* Mutant: every I/O error becomes Ok(None).
wrap_any_io_error(v) ==
  IF ~v.ok /\ v.err.variant = "IoError" THEN Ok(None)
  ELSE IF v.ok THEN Ok(Some(v.val)) ELSE v

\* wrap: NotFound and ENODEV become Ok(None), other errors stay.
wrap(v) ==
  IF ~v.ok /\ v.err.variant = "IoError" /\ v.err.kind = "NotFound"
  THEN Ok(None)
  ELSE IF ~v.ok /\ v.err.variant = "IoError" /\ v.err.kind = "Other"
          /\ v.err.errno = 19
  THEN Ok(None)
  ELSE IF v.ok THEN Ok(Some(v.val)) ELSE v

\* Mutant: io.stat is wrapped like every other file.
io_stat_wrap_plain(v) == wrap(v)

\* io_stat_wrap: as wrap, and a malformed file becomes Ok(None) too.
io_stat_wrap(v) ==
  LET wrapped == wrap(v) IN
  IF ~wrapped.ok /\ wrapped.err.variant = "InvalidFileFormat" THEN Ok(None)
  ELSE IF ~wrapped.ok /\ wrapped.err.variant = "UnexpectedLine" THEN Ok(None)
  ELSE wrapped

\* CgroupReader::read_memory_high returns Result<Option<_>>: the reader itself
\* gives Ok(None) for a memory.high that is missing (the root cgroup has none)
\* or whose cgroup is gone, and the error of any other failure.
read_memory_high(fs, path) ==
  LET v == read_cgroup(fs, path, "memory_high") IN
  IF v.ok THEN Ok(Some(v.val))
  ELSE IF v.err \in {NotFoundError, NoDeviceError} THEN Ok(None)
  ELSE v

\* Mutant: the filter keeps the children the pattern matches.
is_match_inverted(re, path) == path \notin re

\* cgroup_re.is_match(child.name()): a Regex is the set of the cgroup paths
\* it matches.
is_match(re, path) == path \in re

\* Mutant: a failed read of the inode number is dropped without a log.
inode_number_or_log_silent(v) ==
  [val |-> IF v.ok THEN Some(v.val) ELSE None, logs |-> 0]

\* The match on read_inode_number(): Ok(st_ino) gives Some(st_ino), any Err is
\* logged and gives None.
inode_number_or_log(v) ==
  [val |-> IF v.ok THEN Some(v.val) ELSE None, logs |-> IF v.ok THEN 0 ELSE 1]

\* The result of a walk: Ok(val) or Err(err), with the reads attempted and
\* the number of errors logged on the way.
WalkOk(val, reads, logs) ==
  [ok |-> TRUE, val |-> val, err |-> None, reads |-> reads, logs |-> logs]
WalkErr(err, reads, logs) ==
  [ok |-> FALSE, val |-> None, err |-> err, reads |-> reads, logs |-> logs]

\* The reads of the node at path up to and including its k-th.
ReadsUpTo(path, k, collect_io_stat) ==
  {<<path, CgroupReads[i]>> : i \in {j \in 1..k : j > 1 \/ collect_io_stat}}

\* Mutant: a node whose children could not be enumerated gets an empty map.
transpose_or_empty(walked) ==
  IF walked = None THEN WalkOk(Some(<<>>), {}, 0)
  ELSE IF walked[1].ok
  THEN WalkOk(Some(walked[1].val), walked[1].reads, walked[1].logs)
  ELSE walked[1]

\* Option::transpose on the walk of the children: None stays Ok(None), the
\* error of a walk is the error of the whole.
transpose(walked) ==
  IF walked = None THEN WalkOk(None, {}, 0)
  ELSE IF walked[1].ok
  THEN WalkOk(Some(walked[1].val), walked[1].reads, walked[1].logs)
  ELSE walked[1]

RECURSIVE collect_cgroup_sample(_, _, _, _)
RECURSIVE collect_children(_, _, _, _, _, _)

\* child_iter.filter(..).map(..).collect::<Result<BTreeMap<..>>>(): the
\* children in order, a matching one skipped, the first error returned.
collect_children(path, names, collect_io_stat, cgroup_re, fs, acc) ==
  IF names = <<>> \/ ~acc.ok THEN acc
  ELSE
    LET child == Append(path, Head(names)) IN
    IF cgroup_re /= None /\ is_match(cgroup_re[1], child)
    THEN collect_children(path, Tail(names), collect_io_stat, cgroup_re, fs, acc)
    ELSE
      LET r == collect_cgroup_sample(child, collect_io_stat, cgroup_re, fs) IN
      collect_children(path, Tail(names), collect_io_stat, cgroup_re, fs,
        IF r.ok
        THEN WalkOk(acc.val @@ (Head(names) :> r.val),
                    acc.reads \cup r.reads, acc.logs + r.logs)
        ELSE WalkErr(r.err, acc.reads \cup r.reads, acc.logs + r.logs))

\* collect_cgroup_sample(reader, collect_io_stat, logger, cgroup_re) for the
\* reader of the cgroup at path.
collect_cgroup_sample(path, collect_io_stat, cgroup_re, fs) ==
  LET io_stat == IF collect_io_stat
                 THEN io_stat_wrap(read_cgroup(fs, path, "io_stat"))
                 ELSE Ok(None)
      cpu_stat == wrap(read_cgroup(fs, path, "cpu_stat"))
      memory_current == wrap(read_cgroup(fs, path, "memory_current"))
      memory_stat == wrap(read_cgroup(fs, path, "memory_stat"))
      pressure == wrap(read_cgroup(fs, path, "pressure"))
      child_iter == wrap(read_cgroup(fs, path, "children"))
      children ==
        transpose(IF child_iter.val = None THEN None
                  ELSE Some(collect_children(path, child_iter.val[1],
                                             collect_io_stat, cgroup_re, fs,
                                             WalkOk(<<>>, {}, 0))))
      memory_swap_current == wrap(read_cgroup(fs, path, "memory_swap_current"))
      memory_high == read_memory_high(fs, path)
      memory_events == wrap(read_cgroup(fs, path, "memory_events"))
      inode_number == inode_number_or_log(read_cgroup(fs, path, "inode_number"))
      upto(k) == ReadsUpTo(path, k, collect_io_stat)
  IN
  IF ~io_stat.ok THEN WalkErr(io_stat.err, upto(1), 0)
  ELSE IF ~cpu_stat.ok THEN WalkErr(cpu_stat.err, upto(2), 0)
  ELSE IF ~memory_current.ok THEN WalkErr(memory_current.err, upto(3), 0)
  ELSE IF ~memory_stat.ok THEN WalkErr(memory_stat.err, upto(4), 0)
  ELSE IF ~pressure.ok THEN WalkErr(pressure.err, upto(5), 0)
  ELSE IF ~child_iter.ok THEN WalkErr(child_iter.err, upto(6), 0)
  ELSE IF ~children.ok
       THEN WalkErr(children.err, upto(6) \cup children.reads, children.logs)
  ELSE IF ~memory_swap_current.ok
       THEN WalkErr(memory_swap_current.err, upto(7) \cup children.reads,
                    children.logs)
  ELSE IF ~memory_high.ok
       THEN WalkErr(memory_high.err, upto(8) \cup children.reads, children.logs)
  ELSE IF ~memory_events.ok
       THEN WalkErr(memory_events.err, upto(9) \cup children.reads,
                    children.logs)
  ELSE WalkOk([cpu_stat |-> cpu_stat.val,
               io_stat |-> io_stat.val,
               memory_current |-> memory_current.val,
               memory_stat |-> memory_stat.val,
               pressure |-> pressure.val,
               children |-> children.val,
               memory_swap_current |-> memory_swap_current.val,
               memory_high |-> memory_high.val,
               memory_events |-> memory_events.val,
               inode_number |-> inode_number.val],
              upto(10) \cup children.reads,
              children.logs + inode_number.logs)

\* Process ids.
MaxPids == 2
Pids == 1..MaxPids
\* Most system-wide reads of one collection that fail.
MaxReadFaults == 2
\* Most devices read_disk_stats reports.
MaxDisks == 1

\* The counters the live scan reads for pid p, and the counters the n-th
\* insertion of the exit observer recorded.
LivePidInfo(p) == <<"live", p>>
ExitPidInfo(n) == <<"exit", n>>

\* The system-wide reads of collect_sample, in the order the code makes them.
SystemReads == <<"cgroup_root", "all_pids", "netstat", "stat", "meminfo",
                 "vmstat", "hostname", "kernel_version", "os_release",
                 "disk_stats">>
SystemReadSet == {SystemReads[i] : i \in 1..Len(SystemReads)}

\* procfs::DiskStat: twelve optional counters.
DiskStatFields == <<"read_completed", "write_completed", "discard_completed",
                    "read_merged", "read_sectors", "time_spend_read_ms",
                    "write_merged", "write_sectors", "time_spend_write_ms",
                    "discard_merged", "discard_sectors",
                    "time_spend_discard_ms">>
DiskStatFieldSet == {DiskStatFields[i] : i \in 1..Len(DiskStatFields)}

ZeroDiskStat == [f \in DiskStatFieldSet |-> Some(0)]

\* The disk statistics the reader may report: all counters zero, or all zero
\* but one that is positive or absent.
DiskStats ==
  {ZeroDiskStat} \cup
  {[ZeroDiskStat EXCEPT ![f] = v] : f \in DiskStatFieldSet, v \in {Some(1), None}}

\* Device names, as the sequences of their characters.
DiskNames == {<<"r", "a", "m", "0">>, <<"l", "o", "o", "p", "1">>,
              <<"s", "d", "a">>, <<"r", "a">>}

\* The maps read_disk_stats may return.
DiskMaps ==
  UNION {[names -> DiskStats] :
           names \in {n \in SUBSET DiskNames : Cardinality(n) <= MaxDisks}}

\* One active disk.
DefaultDisks == (<<"s", "d", "a">> :> [ZeroDiskStat EXCEPT !["read_completed"] = Some(1)])

\* The environment of one collection: the system-wide reads that fail, the
\* live processes, the disks reported and the state of the cgroup file system.
Environment(failed, live, disks, fs) ==
  [failed |-> failed, live |-> live, disks |-> disks, fs |-> fs]

\* The outcome of a system-wide read.
read_system(env, name) ==
  IF name \in env.failed THEN Err
  ELSE IF name = "all_pids" THEN Ok([p \in env.live |-> LivePidInfo(p)])
  ELSE IF name = "disk_stats" THEN Ok(env.disks)
  ELSE Ok(name)

\* str::starts_with
starts_with(name, prefix) ==
  /\ Len(name) >= Len(prefix)
  /\ SubSeq(name, 1, Len(prefix)) = prefix

\* Mutant: a host name that cannot be read is the empty string.
get_hostname_or_empty(env) ==
  IF read_system(env, "hostname").ok THEN read_system(env, "hostname")
  ELSE Ok("")

\* get_hostname
get_hostname(env) == read_system(env, "hostname")

\* get_os_release
get_os_release(env) == read_system(env, "os_release")

\* merge_procfs_and_exit_data: each entry of exit_data whose pid procfs_data
\* does not have is inserted into procfs_data.
RECURSIVE merge_entries(_, _, _)
merge_entries(procfs_data, exit_map, pids) ==
  IF pids = {} THEN procfs_data
  ELSE LET pid == CHOOSE x \in pids : TRUE IN
       merge_entries(IF pid \notin DOMAIN procfs_data
                     THEN procfs_data @@ (pid :> exit_map[pid])
                     ELSE procfs_data,
                     exit_map, pids \ {pid})

\* Mutant: a pid in both maps takes the value of the exit buffer.
merge_procfs_and_exit_data_exit_wins(procfs_data, exit_map) ==
  [p \in DOMAIN procfs_data \cup DOMAIN exit_map |->
     IF p \in DOMAIN exit_map THEN exit_map[p] ELSE procfs_data[p]]

merge_procfs_and_exit_data(procfs_data, exit_map) ==
  merge_entries(procfs_data, exit_map, DOMAIN exit_map)

\* Mutant: an absent counter counts as zero.
is_all_zero_disk_stats_or_absent(disk_stats) ==
  \A f \in DiskStatFieldSet : disk_stats[f] \in {Some(0), None}

\* is_all_zero_disk_stats
is_all_zero_disk_stats(disk_stats) ==
  /\ disk_stats["read_completed"] = Some(0)
  /\ disk_stats["write_completed"] = Some(0)
  /\ disk_stats["discard_completed"] = Some(0)
  /\ disk_stats["read_merged"] = Some(0)
  /\ disk_stats["read_sectors"] = Some(0)
  /\ disk_stats["time_spend_read_ms"] = Some(0)
  /\ disk_stats["write_merged"] = Some(0)
  /\ disk_stats["write_sectors"] = Some(0)
  /\ disk_stats["time_spend_write_ms"] = Some(0)
  /\ disk_stats["discard_merged"] = Some(0)
  /\ disk_stats["discard_sectors"] = Some(0)
  /\ disk_stats["time_spend_discard_ms"] = Some(0)

\* The filter of the disks of a SystemSample.
keep_disk(disk_name, disk_stat) ==
  IF starts_with(disk_name, <<"r", "a", "m">>)
     \/ starts_with(disk_name, <<"l", "o", "o", "p">>)
  THEN FALSE
  ELSE ~is_all_zero_disk_stats(disk_stat)

\* Mutant: a failed read of the disk statistics is dropped without a log.
collect_disks_silent(disable_disk_stat, disk_stats) ==
  IF ~disable_disk_stat /\ disk_stats.ok
  THEN [val |-> [n \in {d \in DOMAIN disk_stats.val :
                          keep_disk(d, disk_stats.val[d])}
                   |-> disk_stats.val[n]],
        logs |-> <<>>]
  ELSE [val |-> <<>>, logs |-> <<>>]

\* The disks field of the SystemSample and the errors it logs.
collect_disks(disable_disk_stat, disk_stats) ==
  IF ~disable_disk_stat /\ disk_stats.ok
  THEN [val |-> [n \in {d \in DOMAIN disk_stats.val :
                          keep_disk(d, disk_stats.val[d])}
                   |-> disk_stats.val[n]],
        logs |-> <<>>]
  ELSE IF ~disable_disk_stat
  THEN [val |-> <<>>, logs |-> <<"disk_stats">>]
  ELSE [val |-> <<>>, logs |-> <<>>]

\* Mutant: the error is dropped without a log line.
some_or_log_silent(r, name) ==
  [val |-> IF r.ok THEN Some(r.val) ELSE None, logs |-> <<>>]

\* match r { Ok(k) => Some(k), Err(e) => { error!(logger, ..); None } }
some_or_log(r, name) ==
  [val |-> IF r.ok THEN Some(r.val) ELSE None,
   logs |-> IF r.ok THEN <<>> ELSE <<name>>]

\* The arguments of collect_sample other than the root and the exit buffer.
Args(collect_io_stat, disable_disk_stat, cgroup_re) ==
  [collect_io_stat |-> collect_io_stat,
   disable_disk_stat |-> disable_disk_stat,
   cgroup_re |-> cgroup_re]

\* The result of collect_sample: Ok(Sample) or Err, with the errors logged
\* and the reads attempted.
SampleOk(val, logs, reads, cgroup_reads) ==
  [ok |-> TRUE, val |-> val, logs |-> logs, reads |-> reads,
   cgroup_reads |-> cgroup_reads]
SampleErr(logs, reads, cgroup_reads) ==
  [ok |-> FALSE, val |-> None, logs |-> logs, reads |-> reads,
   cgroup_reads |-> cgroup_reads]

\* The first k system-wide reads.
SystemReadsUpTo(k) == {SystemReads[i] : i \in 1..k}

\* n times the log message msg.
LogTimes(msg, n) == [i \in 1..n |-> msg]

\* collect_sample after the exit buffer has been drained into exit_pidmap
\* (here drained):
\* the Sample literal, its fields evaluated in order, the first `?` that
\* meets an error returning it.
build_sample(drained, args, env) ==
  LET cgroup_root == read_system(env, "cgroup_root")
      cgroup == collect_cgroup_sample(<<>>, args.collect_io_stat,
                                      args.cgroup_re, env.fs)
      cgroup_logs == LogTimes("inode_number", cgroup.logs)
      all_pids == read_system(env, "all_pids")
      netstat == read_system(env, "netstat")
      netstats == IF netstat.ok THEN netstat.val ELSE "default"
      logs3 == cgroup_logs \o (IF netstat.ok THEN <<>> ELSE <<"netstat">>)
      stat == read_system(env, "stat")
      meminfo == read_system(env, "meminfo")
      vmstat == read_system(env, "vmstat")
      hostname == get_hostname(env)
      kernel_version == some_or_log(read_system(env, "kernel_version"),
                                    "kernel_version")
      os_release == some_or_log(get_os_release(env), "os_release")
      logs9 == logs3 \o kernel_version.logs \o os_release.logs
      disks == collect_disks(args.disable_disk_stat,
                             read_system(env, "disk_stats"))
  IN
  IF ~cgroup_root.ok THEN SampleErr(<<>>, SystemReadsUpTo(1), {})
  ELSE IF ~cgroup.ok
       THEN SampleErr(cgroup_logs, SystemReadsUpTo(1), cgroup.reads)
  ELSE IF ~all_pids.ok
       THEN SampleErr(cgroup_logs, SystemReadsUpTo(2), cgroup.reads)
  ELSE IF ~stat.ok THEN SampleErr(logs3, SystemReadsUpTo(4), cgroup.reads)
  ELSE IF ~meminfo.ok THEN SampleErr(logs3, SystemReadsUpTo(5), cgroup.reads)
  ELSE IF ~vmstat.ok THEN SampleErr(logs3, SystemReadsUpTo(6), cgroup.reads)
  ELSE IF ~hostname.ok THEN SampleErr(logs3, SystemReadsUpTo(7), cgroup.reads)
  ELSE SampleOk(
         [cgroup |-> cgroup.val,
          processes |-> merge_procfs_and_exit_data(all_pids.val, drained),
          netstats |-> netstats,
          system |-> [stat |-> stat.val,
                      meminfo |-> meminfo.val,
                      vmstat |-> vmstat.val,
                      hostname |-> hostname.val,
                      kernel_version |-> kernel_version.val,
                      os_release |-> os_release.val,
                      disks |-> disks.val]],
         logs9 \o disks.logs, SystemReadsUpTo(10), cgroup.reads)

\* The store, the cursor and the view while only the collector runs.
StoreIdle ==
  /\ sample = <<1>>
  /\ raise_error = FALSE
  /\ seek_errors = {}
  /\ cached_sample = None
  /\ target_timestamp = 0
  /\ current_direction = Forward
  /\ initialized = FALSE
  /\ panicked = FALSE
  /\ last = Op("new", 0, Forward, None, <<>>, 0, FALSE)
  /\ view_state = View_new(InitialModel)
  /\ refreshes = 0
  /\ main_view_stack = MainViewStack_new

other_vars == <<store_vars, cursor_vars, initialized, panicked, last, view_vars,
                model_vars>>

\* The process-exit observer has an entry for a terminated process whose pid
\* has no entry in the buffer, and asks for the mutex.
exit_observer_wait(pid) ==
  /\ prod_pc.at = "idle"
  /\ inserted < MaxInserts
  /\ pid \notin DOMAIN exit_data
  /\ prod_pc' = [at |-> "waiting", pid |-> pid]
  /\ UNCHANGED <<exit_data, mutex, coll_pc, coll_args, exit_pidmap,
                 collected, inserted, obtained, other_vars>>

\* The observer acquires the mutex.
exit_observer_lock ==
  /\ prod_pc.at = "waiting"
  /\ mutex = "free"
  /\ mutex' = "producer"
  /\ prod_pc' = [prod_pc EXCEPT !.at = "locked"]
  /\ UNCHANGED <<exit_data, coll_pc, coll_args, exit_pidmap, collected,
                 inserted, obtained, other_vars>>

\* The observer inserts its entry and releases the mutex.
exit_observer_insert ==
  /\ prod_pc.at = "locked"
  /\ exit_data' = [p \in DOMAIN exit_data \cup {prod_pc.pid} |->
                     IF p = prod_pc.pid THEN ExitPidInfo(inserted + 1)
                     ELSE exit_data[p]]
  /\ inserted' = inserted + 1
  /\ mutex' = "free"
  /\ prod_pc' = [at |-> "idle", pid |-> 0]
  /\ UNCHANGED <<coll_pc, coll_args, exit_pidmap, collected, obtained,
                 other_vars>>

\* collect_sample is called: it creates the reader and asks for the mutex.
collect_sample_call(args) ==
  /\ coll_pc = "idle"
  /\ coll_pc' = "waiting"
  /\ coll_args' = Some(args)
  /\ collected' = None
  /\ UNCHANGED <<exit_data, mutex, prod_pc, exit_pidmap, inserted, obtained,
                 other_vars>>

\* exit_data.lock()
collect_sample_lock ==
  /\ coll_pc = "waiting"
  /\ mutex = "free"
  /\ mutex' = "collector"
  /\ coll_pc' = "locked"
  /\ UNCHANGED <<exit_data, prod_pc, coll_args, exit_pidmap, collected,
                 inserted, obtained, other_vars>>

\* The entries of a PidMap, as the numbers of their insertions.
EntriesOf(pidmap) == {pidmap[p][2] : p \in DOMAIN pidmap}

\* Mutant: the buffer is drained only when disk statistics are collected.
collect_sample_take_if_disks ==
  /\ coll_pc = "locked"
  /\ IF coll_args[1].disable_disk_stat
     THEN /\ exit_pidmap' = EmptyPidMap
          /\ UNCHANGED exit_data
     ELSE /\ exit_pidmap' = exit_data
          /\ exit_data' = EmptyPidMap
  /\ mutex' = "free"
  /\ coll_pc' = "drained"
  /\ obtained' = [n \in DOMAIN obtained |->
                    IF n \in EntriesOf(exit_pidmap') THEN obtained[n] + 1
                    ELSE obtained[n]]
  /\ UNCHANGED <<prod_pc, coll_args, collected, inserted, other_vars>>

\* Mutant: the buffer is cloned and keeps its entries.
collect_sample_take_clone ==
  /\ coll_pc = "locked"
  /\ exit_pidmap' = exit_data
  /\ UNCHANGED exit_data
  /\ mutex' = "free"
  /\ coll_pc' = "drained"
  /\ obtained' = [n \in DOMAIN obtained |->
                    IF n \in EntriesOf(exit_pidmap') THEN obtained[n] + 1
                    ELSE obtained[n]]
  /\ UNCHANGED <<prod_pc, coll_args, collected, inserted, other_vars>>

\* std::mem::take on the locked map, the guard dropped at the end of the
\* statement.
collect_sample_take ==
  /\ coll_pc = "locked"
  /\ exit_pidmap' = exit_data
  /\ exit_data' = EmptyPidMap
  /\ mutex' = "free"
  /\ coll_pc' = "drained"
  /\ obtained' = [n \in DOMAIN obtained |->
                    IF n \in EntriesOf(exit_pidmap') THEN obtained[n] + 1
                    ELSE obtained[n]]
  /\ UNCHANGED <<prod_pc, coll_args, collected, inserted, other_vars>>

\* Mutant: a call that fails puts the entries it drained back.
collect_sample_build_restore(env) ==
  /\ coll_pc = "drained"
  /\ collected' = Some([args |-> coll_args[1], env |-> env,
                        exit_pidmap |-> exit_pidmap,
                        ret |-> build_sample(exit_pidmap, coll_args[1], env)])
  /\ exit_data' = IF collected'[1].ret.ok THEN exit_data
                  ELSE merge_procfs_and_exit_data(exit_data, exit_pidmap)
  /\ exit_pidmap' = EmptyPidMap
  /\ coll_args' = None
  /\ coll_pc' = "idle"
  /\ UNCHANGED <<mutex, prod_pc, inserted, obtained, other_vars>>

\* The rest of collect_sample, in the environment env.
collect_sample_build(env) ==
  /\ coll_pc = "drained"
  /\ collected' = Some([args |-> coll_args[1], env |-> env,
                        exit_pidmap |-> exit_pidmap,
                        ret |-> build_sample(exit_pidmap, coll_args[1], env)])
  /\ exit_pidmap' = EmptyPidMap
  /\ coll_args' = None
  /\ coll_pc' = "idle"
  /\ UNCHANGED <<exit_data, mutex, prod_pc, inserted, obtained, other_vars>>

\* The environments and arguments of the collections that share the exit
\* buffer with the observer.
ExitEnvs ==
  {Environment(failed, live, DefaultDisks, {}) :
     failed \in {{}, {"cgroup_root"}, {"hostname"}}, live \in SUBSET Pids}
ExitArgs ==
  {Args(c, d, None) : c \in BOOLEAN, d \in BOOLEAN}

InitCollector == StoreIdle /\ Collector_new

NextCollector ==
  \/ \E pid \in Pids : exit_observer_wait(pid)
  \/ exit_observer_lock
  \/ exit_observer_insert
  \/ \E args \in ExitArgs : collect_sample_call(args)
  \/ collect_sample_lock
  \/ collect_sample_take
  \/ coll_pc = "drained" /\ \E env \in ExitEnvs : collect_sample_build(env)

SpecCollector == InitCollector /\ [][NextCollector]_vars

\* The mutex wakes a waiting thread when it is released and is held only for
\* one insertion or one swap, so a thread that asks for it acquires it.
FairSpecCollector ==
  /\ SpecCollector
  /\ SF_vars(exit_observer_lock)
  /\ WF_vars(exit_observer_insert)
  /\ SF_vars(collect_sample_lock)
  /\ WF_vars(collect_sample_take)

\* The collections whose system-wide reads fail, at most MaxReadFaults of
\* them at once.
SystemEnvs ==
  {Environment(failed, live, DefaultDisks, {}) :
     failed \in {f \in SUBSET SystemReadSet : Cardinality(f) <= MaxReadFaults},
     live \in SUBSET Pids}
SystemArgs ==
  {Args(TRUE, d, None) : d \in BOOLEAN}

NextSystem ==
  \/ \E args \in SystemArgs : collect_sample_call(args)
  \/ collect_sample_lock
  \/ collect_sample_take
  \/ coll_pc = "drained" /\ \E env \in SystemEnvs : collect_sample_build(env)

SpecSystem == InitCollector /\ [][NextSystem]_vars

\* The collections over the disks the reader may report.
DiskEnvs ==
  {Environment(failed, {1}, disks, {}) :
     failed \in {{}, {"disk_stats"}}, disks \in DiskMaps}
DiskArgs ==
  {Args(TRUE, d, None) : d \in BOOLEAN}

NextDisks ==
  \/ \E args \in DiskArgs : collect_sample_call(args)
  \/ collect_sample_lock
  \/ collect_sample_take
  \/ coll_pc = "drained" /\ \E env \in DiskEnvs : collect_sample_build(env)

SpecDisks == InitCollector /\ [][NextDisks]_vars

\* The exclusion patterns: none, or one that matches the cgroups of a set.
CgroupPatterns ==
  {None, Some({<<>>, <<"a">>}), Some({<<"a", "c">>})}

\* The collections over the states of the cgroup file system.
CgroupEnvs ==
  {Environment({}, {1}, DefaultDisks, fs) : fs \in CgroupFileSystems}
CgroupArgs ==
  {Args(c, FALSE, re) : c \in BOOLEAN, re \in CgroupPatterns}

NextCgroup ==
  \/ \E args \in CgroupArgs : collect_sample_call(args)
  \/ collect_sample_lock
  \/ collect_sample_take
  \/ coll_pc = "drained" /\ \E env \in CgroupEnvs : collect_sample_build(env)

SpecCgroup == InitCollector /\ [][NextCgroup]_vars

----------------------------------------------------------------------------
(***************************************************************************)
(* Derived metrics: the combinators and rate macros of collector.rs.       *)
(* A counter is an unsigned integer of 0..MaxCount; an f64 is the exact    *)
(* fraction it approximates, in lowest terms; a Duration is its whole      *)
(* seconds.                                                                *)
(***************************************************************************)

\* The largest counter value.
MaxCount == 10
\* The longest Duration between two samples, in seconds.
MaxDelta == 7

Counters == 0..MaxCount
OptCounters == {None} \cup {Some(c) : c \in Counters}
Deltas == 1..MaxDelta

RECURSIVE gcd(_, _)
gcd(m, n) == IF n = 0 THEN m ELSE gcd(n, m % n)

\* The f64 of the quotient n / d.
Ratio(n, d) ==
  LET g == gcd(n, d) IN [num |-> n \div g, den |-> d \div g]

\* Duration::as_micros and Duration::as_secs_f64
as_micros(delta) == delta * 1000000
as_secs_f64(delta) == delta

\* f64::ceil followed by `as $target_type`, and `as u64` of a non-negative f64
ceil(x) == (x.num + x.den - 1) \div x.den
as_u64(x) == x.num \div x.den

\* Mutant: a missing operand blanks the sum.
opt_add_both(a, b) ==
  IF a /= None /\ b /= None THEN Some(a[1] + b[1]) ELSE None

\* opt_add
opt_add(a, b) ==
  IF a /= None /\ b /= None THEN Some(a[1] + b[1])
  ELSE IF a /= None THEN Some(a[1])
  ELSE IF b /= None THEN Some(b[1])
  ELSE None

\* Mutant: a missing operand is taken as the identity.
opt_multiply_identity(a, b) ==
  IF a /= None /\ b /= None THEN Some(a[1] * b[1])
  ELSE IF a /= None THEN Some(a[1])
  ELSE IF b /= None THEN Some(b[1])
  ELSE None

\* opt_multiply: a.and_then(|x| b.map(|y| x * y))
opt_multiply(a, b) ==
  IF a /= None THEN (IF b /= None THEN Some(a[1] * b[1]) ELSE None) ELSE None

\* Mutant: the elapsed time is taken in milliseconds.
usec_pct_millis(a_opt, b_opt, delta) ==
  IF a_opt /= None /\ b_opt /= None /\ a_opt[1] <= b_opt[1]
  THEN Some(Ratio((b_opt[1] - a_opt[1]) * 100, delta * 1000))
  ELSE None

\* usec_pct!
usec_pct(a_opt, b_opt, delta) ==
  IF a_opt /= None /\ b_opt /= None
  THEN IF a_opt[1] <= b_opt[1]
       THEN Some(Ratio((b_opt[1] - a_opt[1]) * 100, as_micros(delta)))
       ELSE None
  ELSE None

\* Mutant: the difference is taken without the test a <= b and wraps.
count_per_sec_unguarded(a_opt, b_opt, delta) ==
  IF a_opt /= None /\ b_opt /= None
  THEN Some(Ratio((b_opt[1] - a_opt[1]) % (MaxCount + 1), as_secs_f64(delta)))
  ELSE None

\* count_per_sec! without a target type
count_per_sec(a_opt, b_opt, delta) ==
  IF a_opt /= None /\ b_opt /= None
  THEN IF a_opt[1] <= b_opt[1]
       THEN Some(Ratio(b_opt[1] - a_opt[1], as_secs_f64(delta)))
       ELSE None
  ELSE None

\* count_per_sec! with a target type
count_per_sec_as(a_opt, b_opt, delta) ==
  IF a_opt /= None /\ b_opt /= None
  THEN IF a_opt[1] <= b_opt[1]
       THEN Some(ceil(Ratio(b_opt[1] - a_opt[1], as_secs_f64(delta))))
       ELSE None
  ELSE None

\* The last application: the function, its arguments and its result.
Calc(op, args, ret) == [op |-> op, args |-> args, ret |-> ret]

\* get_option_rate!
get_option_rate(key, smpl, lst) ==
  IF lst = None THEN None
  ELSE LET rate == count_per_sec(lst[1][1][key], smpl[key], lst[1][2]) IN
       IF rate = None THEN None ELSE Some(as_u64(rate[1]))

\* The samples whose metrics are derived: two cumulative counters and a gauge.
SomeCounters == {None, Some(1), Some(MaxCount)}
DataSamples ==
  [usage_usec : SomeCounters, events : SomeCounters,
   memory_current : SomeCounters]

\* The packages of a paired seek over such samples.
DataPackages ==
  [newer_sample : DataSamples,
   older_sample : {None} \cup {Some(x) : x \in DataSamples},
   timestamp : {get_system_time(MaxTime)},
   duration : Deltas]

\* Model::new: the fields of a Model derived from its sample and its
\* predecessor: a gauge, a percentage and a rate.
ModelFields(model) ==
  [memory_current |-> model.sample.memory_current,
   usage_pct |-> IF model.last = None THEN None
                 ELSE usec_pct(model.last[1][1].usage_usec,
                               model.sample.usage_usec, model.last[1][2]),
   events_per_sec |-> get_option_rate("events", model.sample, model.last)]

\* Collector::update_model after collect_sample has returned smpl: the
\* retained pair is replaced and the Model is made from the new sample and
\* the pair retained before, if any.
update_model_build(smpl, now, system_now, retained) ==
  [last |-> Some(<<smpl, now>>),
   model |-> Model_new(get_system_time(system_now), smpl,
                       IF retained = None THEN None
                       ELSE Some(<<retained[1][1], now - retained[1][2]>>))]

\* The applications, one action each, each made once from the state after
\* construction.
calc_frame ==
  UNCHANGED <<store_vars, cursor_vars, initialized, panicked, last, view_vars,
              exit_data, mutex, prod_pc, coll_pc, coll_args, exit_pidmap,
              collected, inserted, obtained, clock, coll_last, coll_now,
              updates>>

apply_opt_add(a, b, c) ==
  /\ calc' = Some(Calc("opt_add", <<a, b, c>>,
                  [ab |-> opt_add(a, b), ba |-> opt_add(b, a),
                   ab_c |-> opt_add(opt_add(a, b), c),
                   a_bc |-> opt_add(a, opt_add(b, c))]))
  /\ calc_frame

apply_opt_multiply(a, b) ==
  /\ calc' = Some(Calc("opt_multiply", <<a, b>>, opt_multiply(a, b)))
  /\ calc_frame

apply_usec_pct(a_opt, b_opt, delta) ==
  /\ calc' = Some(Calc("usec_pct", <<a_opt, b_opt, delta>>,
                  usec_pct(a_opt, b_opt, delta)))
  /\ calc_frame

apply_count_per_sec(a_opt, b_opt, delta) ==
  /\ calc' = Some(Calc("count_per_sec", <<a_opt, b_opt, delta>>,
                  count_per_sec(a_opt, b_opt, delta)))
  /\ calc_frame

apply_count_per_sec_as(a_opt, b_opt, delta) ==
  /\ calc' = Some(Calc("count_per_sec_as", <<a_opt, b_opt, delta>>,
                  count_per_sec_as(a_opt, b_opt, delta)))
  /\ calc_frame

apply_get_option_rate(smpl, lst) ==
  /\ calc' = Some(Calc("get_option_rate", <<smpl, lst>>,
                  get_option_rate("events", smpl, lst)))
  /\ calc_frame

apply_to_model(pkg) ==
  /\ calc' = Some(Calc("to_model", pkg, ModelFields(SamplePackage_to_model(pkg))))
  /\ calc_frame

apply_update_model(smpl, now, retained) ==
  /\ calc' = Some(Calc("update_model", <<smpl, now, retained>>,
                  ModelFields(update_model_build(smpl, now, now, retained).model)))
  /\ calc_frame

\* The pairs (sample, elapsed time) a rate is taken against.
DataLasts ==
  {None} \cup {Some(<<x, d>>) : x \in DataSamples, d \in Deltas}

\* The pairs a Collector retains.
DataRetained ==
  {None} \cup {Some(<<x, MaxDelta + 1 - d>>) : x \in DataSamples, d \in Deltas}

InitCalc == StoreIdle /\ Collector_new

NextCalc ==
  \/ calc = None /\ \E a, b, c \in OptCounters : apply_opt_add(a, b, c)
  \/ calc = None /\ \E a, b \in OptCounters : apply_opt_multiply(a, b)
  \/ calc = None /\ \E a, b \in OptCounters, d \in Deltas : apply_usec_pct(a, b, d)
  \/ calc = None /\ \E a, b \in OptCounters, d \in Deltas : apply_count_per_sec(a, b, d)
  \/ calc = None /\ \E a, b \in OptCounters, d \in Deltas : apply_count_per_sec_as(a, b, d)
  \/ calc = None /\ \E x \in DataSamples, l \in DataLasts : apply_get_option_rate(x, l)
  \/ calc = None /\ \E pkg \in DataPackages : apply_to_model(pkg)
  \/ calc = None /\ \E x \in DataSamples, r \in DataRetained : apply_update_model(x, MaxDelta + 1, r)

SpecCalc == InitCalc /\ [][NextCalc]_vars

\* ---------------------------------------------------------------------------
\* Collector::update_model
\* ---------------------------------------------------------------------------

\* The clock readings and the completed calls a behaviour is followed for.
MaxClock == 3
MaxUpdates == 3

\* What update_model and the clock leave alone.
update_frame_but_exit_pidmap ==
  UNCHANGED <<store_vars, cursor_vars, initialized, panicked, last, view_vars,
              exit_data, mutex, prod_pc, inserted, obtained, calc>>
update_frame ==
  /\ update_frame_but_exit_pidmap
  /\ UNCHANGED exit_pidmap

\* Time passes: a later Instant::now() reads a later instant.
clock_tick ==
  /\ clock < MaxClock
  /\ clock' = clock + 1
  /\ UNCHANGED <<coll_pc, coll_args, collected, coll_last, coll_now, updates>>
  /\ update_frame

\* One completed update_model call: the instant it read on entry, what the
\* Collector retained before and after it, and its result.
Update(now, before, after, ret) ==
  [now |-> now, before |-> before, after |-> after, ret |-> ret]

\* update_model is called: it reads the clock into now and calls
\* collect_sample(&self.cgroup_root, &self.exit_data, true, logger, false,
\* &None), which asks for the mutex.
update_model_call ==
  /\ coll_pc = "idle"
  /\ Len(updates) < MaxUpdates
  /\ coll_now' = Some(clock)
  /\ coll_pc' = "waiting"
  /\ coll_args' = Some(Args(TRUE, FALSE, None))
  /\ collected' = None
  /\ UNCHANGED <<clock, coll_last, updates>>
  /\ update_frame

\* Mutant: a failed collection drops the retained sample.
update_model_result_forget(ret, now, system_now, retained) ==
  IF ret.ok
  THEN LET built == update_model_build(ret.val, now, system_now, retained)
       IN [last |-> built.last, ret |-> Ok(built.model)]
  ELSE [last |-> None, ret |-> Err]

\* update_model after collect_sample has returned ret: `?` returns its error
\* before self.last is touched; otherwise self.last.replace((sample, now))
\* and Model::new with the sample and the pair replaced.
update_model_result(ret, now, system_now, retained) ==
  IF ret.ok
  THEN LET built == update_model_build(ret.val, now, system_now, retained)
       IN [last |-> built.last, ret |-> Ok(built.model)]
  ELSE [last |-> retained, ret |-> Err]

\* The Collector after a call with result res.
update_model_store(res) ==
  /\ coll_last' = res.last
  /\ updates' = Append(updates,
                       Update(coll_now[1], coll_last, res.last, res.ret))

\* The rest of update_model, in the environment env: collect_sample builds
\* its sample, and the call ends.
update_model_return(env) ==
  /\ coll_pc = "drained"
  /\ coll_now /= None
  /\ update_model_store(
       update_model_result(build_sample(exit_pidmap, coll_args[1], env),
                           coll_now[1], clock, coll_last))
  /\ exit_pidmap' = EmptyPidMap
  /\ coll_now' = None
  /\ coll_args' = None
  /\ coll_pc' = "idle"
  /\ UNCHANGED <<clock, collected>>
  /\ update_frame_but_exit_pidmap

\* The environments update_model collects in: a system-wide read that makes
\* the collection fail or one that is absorbed, with different live processes.
UpdateEnvs ==
  {Environment(failed, live, DefaultDisks, {}) :
     failed \in {{}, {"stat"}, {"hostname"}}, live \in {{}, {1}}}

NextUpdate ==
  \/ clock_tick
  \/ update_model_call
  \/ collect_sample_lock
  \/ collect_sample_take
  \/ coll_pc = "drained" /\ \E env \in UpdateEnvs : update_model_return(env)

SpecUpdate == InitCollector /\ [][NextUpdate]_vars

----------------------------------------------------------------------------
(* Properties of the seek contract and of the cursor. *)

\* The timestamps of the stored samples.
Stored == {sample[i] : i \in 1..Len(sample)}
SetMin(S) == CHOOSE x \in S : \A y \in S : x <= y
SetMax(S) == CHOOSE x \in S : \A y \in S : x >= y

\* C1: a Forward seek at t on a non-failing store returns the stored sample
\* with the smallest timestamp >= t together with that timestamp, and returns
\* absent exactly when the series is empty or t is after the last stored
\* timestamp.
C1_ForwardSeek ==
  (last.op = "seek" /\ last.dir = Forward /\ ~raise_error) =>
    LET t == last.ts.secs
        later == {s \in Stored : s >= t}
    IN /\ last.ret.ok
       /\ (last.ret.val = None) <=>
            (sample = <<>> \/ t > sample[Len(sample)])
       /\ last.ret.val /= None =>
            /\ later /= {}
            /\ last.ret.val = Some(<<get_system_time(SetMin(later)), SetMin(later)>>)

\* A Forward seek that lands on a sample strictly after the query, with an
\* earlier sample stored before the query.
C1_Witness ==
  /\ last.op = "seek" /\ last.dir = Forward /\ ~raise_error
  /\ last.ret.val /= None
  /\ last.ret.val[1][2] > last.ts.secs
  /\ \E s \in Stored : s < last.ts.secs

\* C2: a Reverse seek at t on a non-failing store returns the stored sample
\* with the largest timestamp <= t together with that timestamp, and returns
\* absent exactly when the series is empty or t is before the first stored
\* timestamp.
C2_ReverseSeek ==
  (last.op = "seek" /\ last.dir = Reverse /\ ~raise_error) =>
    LET t == last.ts.secs
        earlier == {s \in Stored : s =< t}
    IN /\ last.ret.ok
       /\ (last.ret.val = None) <=> (sample = <<>> \/ t < sample[1])
       /\ last.ret.val /= None =>
            /\ earlier /= {}
            /\ last.ret.val = Some(<<get_system_time(SetMax(earlier)), SetMax(earlier)>>)

\* A Reverse seek that lands on a sample strictly before the query, with a
\* later sample stored after the query.
C2_Witness ==
  /\ last.op = "seek" /\ last.dir = Reverse /\ ~raise_error
  /\ last.ret.val /= None
  /\ last.ret.val[1][2] < last.ts.secs
  /\ \E s \in Stored : s > last.ts.secs

\* C3: when the query timestamp t is the timestamp of a stored sample, the
\* seek returns (t, the sample stored at t) in either direction, and the
\* Forward and the Reverse seek at t agree.
C3_ExactMatch ==
  (last.op = "seek" /\ ~raise_error /\ last.ts.secs \in Stored) =>
    /\ last.ret = Ok(Some(<<last.ts, last.ts.secs>>))
    /\ get_sample_at_timestamp(last.ts, Forward) = last.ret
    /\ get_sample_at_timestamp(last.ts, Reverse) = last.ret

\* A Reverse seek exactly at the first of several stored timestamps.
C3_Witness ==
  /\ last.op = "seek" /\ last.dir = Reverse /\ ~raise_error
  /\ Len(sample) >= 2
  /\ last.ts.secs = sample[1]
  /\ sample[1] < sample[2]
  /\ last.ret.val /= None

\* The package returned by the last paired seek.
LastPackage == last.ret[1]

\* C4: the paired seek returns a package if and only if the single seek with
\* the same arguments returns a sample; the package's newer_sample and
\* timestamp are that sample and its actual stored timestamp.
C4_PairedSeekTarget ==
  (last.op = "adjacent" /\ ~last.panic) =>
    LET s == get_sample_at_timestamp(last.ts, last.dir) IN
    /\ (last.ret /= None) <=> (s.ok /\ s.val /= None)
    /\ last.ret /= None =>
         /\ LastPackage.newer_sample = s.val[1][2]
         /\ LastPackage.timestamp = s.val[1][1]
         /\ LastPackage.timestamp.secs \in Stored

\* A Forward paired seek between two samples: the package's timestamp is
\* later than the query.
C4_Witness ==
  /\ last.op = "adjacent" /\ last.dir = Forward
  /\ last.ret /= None
  /\ LastPackage.timestamp.secs > last.ts.secs
  /\ \E s \in Stored : s < last.ts.secs

\* C5: in a package whose target is not the earliest stored sample,
\* older_sample is the stored sample immediately before the target, found by
\* a Reverse seek one time unit before the target's timestamp, and duration
\* is the target's timestamp minus the older one's, whatever the direction.
C5_PairedSeekOlder ==
  (last.op = "adjacent" /\ ~last.panic /\ last.ret /= None
     /\ LastPackage.timestamp.secs /= sample[1]) =>
    LET target == LastPackage.timestamp.secs
        before == {s \in Stored : s < target}
    IN /\ before /= {}
       /\ LastPackage.older_sample = Some(SetMax(before))
       /\ ~ \E s \in Stored : LastPackage.older_sample[1] < s /\ s < target
       /\ LastPackage.duration = target - SetMax(before)
       /\ Len(last.queries) = 2
       /\ last.queries[2] = Query(get_system_time(target - 1), Reverse)

\* A Reverse paired seek past a sample whose predecessor is more than one
\* time unit older.
C5_Witness ==
  /\ last.op = "adjacent" /\ last.dir = Reverse
  /\ last.ret /= None
  /\ LastPackage.older_sample /= None
  /\ LastPackage.duration >= 2
  /\ LastPackage.timestamp.secs < last.ts.secs

\* C6: when the target of the paired seek is the earliest stored sample, the
\* package has no older_sample and a zero duration, and the Model is built
\* from the target alone (Model::new without a predecessor).
C6_PairedSeekFirst ==
  (last.op = "adjacent" /\ ~last.panic /\ last.ret /= None
     /\ LastPackage.timestamp.secs = sample[1]) =>
    /\ LastPackage.older_sample = None
    /\ LastPackage.duration = 0
    /\ last.built = Some(Model_new(LastPackage.timestamp,
                                   LastPackage.newer_sample, None))
    /\ last.model = Some(<<LastPackage.newer_sample, LastPackage.timestamp.secs>>)

\* A Reverse paired seek between the first and the second sample.
C6_Witness ==
  /\ last.op = "adjacent" /\ last.dir = Reverse
  /\ last.ret /= None
  /\ Len(sample) >= 2
  /\ LastPackage.timestamp.secs = sample[1]
  /\ last.ts.secs > sample[1]
  /\ last.built /= None /\ last.built[1].last = None

\* C7: initialize() on an empty cursor with starting timestamp s issues one
\* Forward seek at s; if a sample is found, cached_sample becomes that sample
\* and target_timestamp its timestamp, the earliest stored one >= s.
C7_InitializeFound ==
  [][(last'.op = "initialize" /\ ~last'.panic) =>
       LET s == target_timestamp
           found == get_sample_at_timestamp(s, Forward)
           later == {x \in Stored : x >= s.secs}
       IN /\ cached_sample = None
          /\ last'.queries = <<Query(s, Forward)>>
          /\ (found.ok /\ found.val /= None) =>
               /\ later /= {}
               /\ cached_sample' = Some(SetMin(later))
               /\ cached_sample' = Some(found.val[1][2])
               /\ target_timestamp' = get_system_time(SetMin(later))
               /\ target_timestamp' = found.val[1][1]]_vars

\* initialize() with a start between two samples has moved the cursor to the
\* later one.
C7_Witness ==
  /\ last.op = "initialize" /\ ~last.panic
  /\ cached_sample /= None
  /\ target_timestamp.secs = cached_sample[1]
  /\ last.ts.secs < target_timestamp.secs
  /\ \E x \in Stored : x < last.ts.secs

\* C8: if the Forward seek of initialize() finds nothing, the cursor is left
\* as it was: cached_sample absent, target_timestamp the starting timestamp.
C8_InitializeNothing ==
  [][(last'.op = "initialize" /\ ~last'.panic
        /\ get_sample_at_timestamp(target_timestamp, Forward) = Ok(None)) =>
       /\ cached_sample' = None
       /\ target_timestamp' = target_timestamp
       /\ UNCHANGED cursor_vars]_vars

\* initialize() started after the last sample of a non-empty series.
C8_Witness ==
  /\ last.op = "initialize" /\ ~last.panic /\ ~raise_error
  /\ sample /= <<>>
  /\ last.ts.secs > sample[Len(sample)]
  /\ cached_sample = None
  /\ target_timestamp = last.ts

\* C9: initialize() on a populated cursor fails its assertion before any
\* store query and without logging an error; initialize() on an empty cursor
\* does not fail, also after an earlier initialize() that found nothing.
C9_InitializeTwice ==
  [][(last'.op = "initialize") =>
       /\ (cached_sample /= None) =>
            /\ panicked' /\ last'.panic
            /\ last'.queries = <<>>
            /\ last'.logs = 0
            /\ UNCHANGED cursor_vars
       /\ (cached_sample = None) =>
            /\ ~panicked' /\ ~last'.panic
            /\ Len(last'.queries) = 1]_vars

\* The second initialize() on a populated cursor has aborted.
C9_Witness ==
  /\ last.op = "initialize" /\ last.panic /\ panicked
  /\ cached_sample /= None
  /\ initialized

\* C10: advance(direction) whose seek at target_timestamp in that direction
\* finds nothing returns absent and leaves the cursor state unchanged.
C10_AdvanceAbsent ==
  [][(last'.op = "advance"
        /\ get_sample_at_timestamp(target_timestamp, last'.dir) = Ok(None)) =>
       /\ last'.ret = None
       /\ ~last'.panic
       /\ UNCHANGED cursor_vars]_vars

\* advance(Forward) from a cursor left empty after the last sample of a
\* non-empty series.
C10_Witness ==
  /\ last.op = "advance" /\ last.dir = Forward /\ ~raise_error
  /\ last.ret = None
  /\ sample /= <<>>
  /\ target_timestamp.secs > sample[Len(sample)]
  /\ cached_sample = None

C12_ViewKeepsModel ==
  [][(last'.op = "advance") =>
       IF last'.ret /= None
       THEN /\ view_state' = [view_state EXCEPT !.model = last'.ret[1]]
            /\ refreshes' = 1
       ELSE /\ view_state' = view_state
            /\ refreshes' = 0]_vars

\* An advance has returned absent while the view displays the Model of an
\* earlier advance.
C12_Witness ==
  /\ last.op = "advance" /\ last.ret = None
  /\ view_state.model /= InitialModel
  /\ refreshes = 0

----------------------------------------------------------------------------
(* Properties of snapshot acquisition.                                     *)

\* C13: every collect_sample call, whatever its flags and whether it then
\* succeeds or fails, holds the mutex while it swaps the exit buffer for an
\* empty map: right after that step the buffer is empty and the call has its
\* former contents, and no call returns without having made that step first.
C13_DrainFirst ==
  [][/\ (coll_pc = "locked" /\ coll_pc' = "drained")
          => /\ mutex = "collector"
             /\ exit_data' = EmptyPidMap
             /\ exit_pidmap' = exit_data
     /\ (collected = None /\ collected' /= None)
          => /\ coll_pc = "drained"
             /\ collected'[1].exit_pidmap = exit_pidmap
             /\ exit_data' = exit_data]_vars

\* A call with disk statistics disabled drained a non-empty buffer and then
\* failed.
C13_Witness ==
  /\ collected /= None
  /\ ~collected[1].ret.ok
  /\ collected[1].args.disable_disk_stat
  /\ collected[1].exit_pidmap /= EmptyPidMap
  /\ exit_data = EmptyPidMap

\* Each inserted entry is either still in the buffer and obtained by no drain,
\* or out of the buffer and obtained by exactly one drain.
ExactlyOnce ==
  \A n \in 1..inserted :
    \/ n \in EntriesOf(exit_data) /\ obtained[n] = 0
    \/ n \notin EntriesOf(exit_data) /\ obtained[n] = 1

C15_Merge ==
  (collected /= None /\ collected[1].ret.ok) =>
    LET processes == collected[1].ret.val.processes
        live == collected[1].env.live
        drained == collected[1].exit_pidmap
    IN /\ DOMAIN processes = live \cup DOMAIN drained
       /\ \A p \in DOMAIN processes :
            processes[p] = IF p \in live THEN LivePidInfo(p) ELSE drained[p]

\* A Sample was built with a pid both live and drained, and a pid only drained.
C15_Witness ==
  /\ collected /= None
  /\ collected[1].ret.ok
  /\ \E p \in collected[1].env.live : p \in DOMAIN collected[1].exit_pidmap
  /\ \E p \in DOMAIN collected[1].exit_pidmap : p \notin collected[1].env.live

\* C16: a failing read of the CPU statistics, the memory information or the
\* VM statistics leaves that field absent and is logged; collect_sample
\* still returns a Sample.
C16_CounterReadAbsorbed ==
  (/\ collected /= None
   /\ collected[1].env.failed /= {}
   /\ collected[1].env.failed \subseteq {"stat", "meminfo", "vmstat"})
    => /\ collected[1].ret.ok
       /\ \A f \in collected[1].env.failed :
            \E i \in 1..Len(collected[1].ret.logs) :
              collected[1].ret.logs[i] = f

\* What the code does instead: a collection whose CPU statistics, memory
\* information or VM statistics cannot be read returns an error, with no
\* Sample and no log line for that read.
C16_CounterReadAborts ==
  (/\ collected /= None
   /\ collected[1].env.failed \cap {"stat", "meminfo", "vmstat"} /= {})
    => /\ ~collected[1].ret.ok
       /\ collected[1].ret.val = None
       /\ \A i \in 1..Len(collected[1].ret.logs) :
            collected[1].ret.logs[i] \notin {"stat", "meminfo", "vmstat"}

\* C17: a failing read of the kernel version or of the OS release leaves that
\* field None and is logged; collect_sample still returns a Sample, all its
\* other fields populated.
C17_VersionReadAbsorbed ==
  (/\ collected /= None
   /\ collected[1].env.failed \subseteq {"kernel_version", "os_release"})
    => LET ret == collected[1].ret
           failed == collected[1].env.failed
       IN /\ ret.ok
          /\ \A f \in {"kernel_version", "os_release"} :
               IF f \in failed
               THEN /\ ret.val.system[f] = None
                    /\ \E i \in 1..Len(ret.logs) : ret.logs[i] = f
               ELSE /\ ret.val.system[f] = Some(f)
                    /\ \A i \in 1..Len(ret.logs) : ret.logs[i] /= f
          /\ \A f \in {"stat", "meminfo", "vmstat", "hostname"} :
               ret.val.system[f] = f
          /\ ret.val.netstats = "netstat"
          /\ DOMAIN ret.val.processes = collected[1].env.live
          /\ ret.val.cgroup.cpu_stat /= None
          /\ collected[1].args.disable_disk_stat
               \/ ret.val.system.disks = DefaultDisks

\* A Sample was returned though neither the kernel version nor the OS release
\* could be read.
C17_Witness ==
  /\ collected /= None
  /\ collected[1].env.failed = {"kernel_version", "os_release"}
  /\ collected[1].ret.ok
  /\ collected[1].ret.val.system.kernel_version = None
  /\ collected[1].ret.val.system.os_release = None

\* C18: when the host name cannot be obtained, the processes cannot be
\* enumerated or the cgroup root cannot be opened, collect_sample returns an
\* error and no Sample.
C18_FatalReadAborts ==
  (/\ collected /= None
   /\ collected[1].env.failed \cap {"hostname", "all_pids", "cgroup_root"} /= {})
    => /\ ~collected[1].ret.ok
       /\ collected[1].ret.val = None

\* A collection failed because only the host name could not be obtained.
C18_Witness ==
  /\ collected /= None
  /\ collected[1].env.failed = {"hostname"}
  /\ ~collected[1].ret.ok

\* The name begins with the characters of prefix.
BeginsWith(name, prefix) ==
  /\ Len(name) >= Len(prefix)
  /\ \A i \in 1..Len(prefix) : name[i] = prefix[i]

\* C19: the disks of a Sample are empty when disk collection is disabled;
\* otherwise a reported device is in them exactly when its name begins with
\* neither "ram" nor "loop" and one of its twelve counters is not exactly
\* zero, a counter that is positive or absent keeping the device.
C19_DiskFilter ==
  (collected /= None /\ collected[1].ret.ok) =>
    LET disks == collected[1].ret.val.system.disks
        reported == IF "disk_stats" \in collected[1].env.failed THEN <<>>
                    ELSE collected[1].env.disks
    IN IF collected[1].args.disable_disk_stat
       THEN DOMAIN disks = {}
       ELSE /\ DOMAIN disks \subseteq DOMAIN reported
            /\ \A d \in DOMAIN reported :
                 /\ d \in DOMAIN disks <=>
                      /\ ~BeginsWith(d, <<"r", "a", "m">>)
                      /\ ~BeginsWith(d, <<"l", "o", "o", "p">>)
                      /\ \E f \in DiskStatFieldSet : reported[d][f] /= Some(0)
                 /\ d \in DOMAIN disks => disks[d] = reported[d]

\* A device whose counters are zero but for one that is absent was kept.
C19_Witness ==
  /\ collected /= None
  /\ collected[1].ret.ok
  /\ ~collected[1].args.disable_disk_stat
  /\ \E d \in DOMAIN collected[1].ret.val.system.disks :
       /\ \E f \in DiskStatFieldSet :
            collected[1].ret.val.system.disks[d][f] = None
       /\ \A f \in DiskStatFieldSet :
            collected[1].ret.val.system.disks[d][f] \in {None, Some(0)}

\* The counters of a cgroup node the claim names.
CgroupCounters == {"cpu_stat", "io_stat", "memory_current", "memory_stat",
                   "memory_swap_current", "memory_high", "pressure",
                   "memory_events"}

\* The sample of the node at path in a cgroup sample of the root, None when
\* the walk did not keep the node.
RECURSIVE NodeAt(_, _)
NodeAt(cgroup, path) ==
  IF path = <<>> THEN Some(cgroup)
  ELSE IF cgroup.children = None THEN None
  ELSE IF Head(path) \notin DOMAIN cgroup.children[1] THEN None
  ELSE NodeAt(cgroup.children[1][Head(path)], Tail(path))

\* The cgroups the walk skips: those the pattern matches and their
\* descendants.
Pruned(cgroup_re, path) ==
  /\ cgroup_re /= None
  /\ \E i \in 1..Len(path) : SubSeq(path, 1, i) \in cgroup_re[1]

\* The read f of the walk failed with NotFound or ENODEV at a node the walk
\* visits.
Vanished(f) ==
  /\ f.out \in {Fail(NotFoundError), Fail(NoDeviceError)}
  /\ f.read \in CgroupCounters
  /\ f.read = "io_stat" => collected[1].args.collect_io_stat
  /\ ~Pruned(collected[1].args.cgroup_re, f.path)

Reached(path) ==
  /\ ~Pruned(collected[1].args.cgroup_re, path)
  /\ \A f \in collected[1].env.fs :
       (/\ f.read = "children"
        /\ f.out \in {Fail(NotFoundError), Fail(NoDeviceError)})
         => ~(Len(f.path) < Len(path) /\ SubSeq(path, 1, Len(f.path)) = f.path)

\* The read of fault f is one of the counters, made where the walk gets to.
CounterFault(f) ==
  /\ f.read \in CgroupCounters
  /\ f.read = "io_stat" => collected[1].args.collect_io_stat
  /\ Reached(f.path)

\* C21: an I/O failure other than NotFound and ENODEV of a counter read, at
\* any depth of the hierarchy, leaves the walk as an error: collect_sample
\* returns Err, with no cgroup tree and no Sample.
C21_HardFailureAborts ==
  (/\ collected /= None
   /\ \E f \in collected[1].env.fs :
        CounterFault(f) /\ f.out = Fail(OtherIoError))
    => /\ ~collected[1].ret.ok
       /\ collected[1].ret.val = None

\* The read of memory.events of the cgroup c under a failed with EIO and the
\* collection returned an error.
C21_Witness ==
  /\ collected /= None
  /\ collected[1].env.fs =
       {[path |-> <<"a", "c">>, read |-> "memory_events",
         out |-> Fail(OtherIoError)]}
  /\ collected[1].args.cgroup_re = None
  /\ ~collected[1].ret.ok

\* The two malformations of a file.
Malformed == {Fail(InvalidFileFormat), Fail(UnexpectedLine)}

\* C22: a malformed io.stat (invalid format or unexpected line) at a node
\* leaves the io_stat of that node absent and the walk goes on; on any other
\* counter file of a cgroup the same errors fail the collection.
C22_MalformedIoStat ==
  (/\ collected /= None
   /\ collected[1].env.fs /= {}
   /\ \A f \in collected[1].env.fs : CounterFault(f) /\ f.out \in Malformed)
    => IF \A f \in collected[1].env.fs : f.read = "io_stat"
       THEN /\ collected[1].ret.ok
            /\ \A path \in CgroupPaths :
                 Reached(path) =>
                   LET node == NodeAt(collected[1].ret.val.cgroup, path) IN
                   /\ node /= None
                   /\ node[1].io_stat = None <=>
                        \E f \in collected[1].env.fs : f.path = path
                   /\ \A c \in CgroupCounters \ {"io_stat"} : node[1][c] /= None
       ELSE ~collected[1].ret.ok

\* The io.stat of the cgroup a had an unexpected line: the tree was returned,
\* a without io_stat, its child c with it.
C22_Witness ==
  /\ collected /= None
  /\ collected[1].env.fs =
       {[path |-> <<"a">>, read |-> "io_stat", out |-> Fail(UnexpectedLine)]}
  /\ collected[1].args.cgroup_re = None
  /\ collected[1].ret.ok
  /\ NodeAt(collected[1].ret.val.cgroup, <<"a">>)[1].io_stat = None
  /\ NodeAt(collected[1].ret.val.cgroup, <<"a", "c">>)[1].io_stat /= None

\* C23: with an exclusion pattern, a child cgroup the pattern matches is
\* absent from the children of its parent and no read is made on it or under
\* it; the other children are walked with the same pattern; the root is
\* walked whether or not the pattern matches it.
C23_PatternPrunes ==
  (collected /= None /\ collected[1].args.cgroup_re /= None
   /\ "cgroup_root" \notin collected[1].env.failed) =>
    LET ret == collected[1].ret
        cgroup_re == collected[1].args.cgroup_re
    IN /\ \E r \in ret.cgroup_reads : r[1] = <<>>
       /\ \A path \in CgroupPaths :
            IF Pruned(cgroup_re, path)
            THEN /\ \A r \in ret.cgroup_reads : r[1] /= path
                 /\ ret.ok => NodeAt(ret.val.cgroup, path) = None
            ELSE (ret.ok /\ Reached(path)) =>
                   /\ NodeAt(ret.val.cgroup, path) /= None
                   /\ \E r \in ret.cgroup_reads : r[1] = path

\* A pattern that matches the root and a: the tree has the root and b, and
\* neither a nor c under it was read.
C23_Witness ==
  /\ collected /= None
  /\ collected[1].args.cgroup_re = Some({<<>>, <<"a">>})
  /\ collected[1].ret.ok
  /\ DOMAIN collected[1].ret.val.cgroup.children[1] = {"b"}
  /\ \A r \in collected[1].ret.cgroup_reads : r[1] \in {<<>>, <<"b">>}

----------------------------------------------------------------------------
(* Properties of the derived metrics.                                      *)

RateOps == {"usec_pct", "count_per_sec", "count_per_sec_as", "get_option_rate"}

\* The predecessor value, the successor value and the elapsed seconds of the
\* last application of a rate macro.
CalcA ==
  IF calc[1].op = "get_option_rate"
  THEN (IF calc[1].args[2] = None THEN None ELSE calc[1].args[2][1][1].events)
  ELSE calc[1].args[1]
CalcB ==
  IF calc[1].op = "get_option_rate" THEN calc[1].args[1].events
  ELSE calc[1].args[2]
CalcDelta ==
  IF calc[1].op = "get_option_rate"
  THEN (IF calc[1].args[2] = None THEN 1 ELSE calc[1].args[2][1][2])
  ELSE calc[1].args[3]

\* The result of the last application is the fraction n / d.
RetIs(n, d) ==
  /\ calc[1].ret /= None
  /\ calc[1].ret[1].num * d = n * calc[1].ret[1].den

\* C24: a derived rate or percentage whose predecessor value is greater than
\* its successor value is absent; a derived value that is present is not
\* negative and not above what the successor value alone would give, so it
\* is no wrapped difference.
C24_RegressionAbsent ==
  (calc /= None /\ calc[1].op \in RateOps) =>
    /\ (CalcA /= None /\ CalcB /= None /\ CalcA[1] > CalcB[1])
         => calc[1].ret = None
    /\ calc[1].ret /= None =>
         /\ CalcA /= None /\ CalcB /= None /\ CalcA[1] <= CalcB[1]
         /\ IF calc[1].op \in {"count_per_sec_as", "get_option_rate"}
            THEN calc[1].ret[1] >= 0 /\ calc[1].ret[1] <= CalcB[1]
            ELSE /\ calc[1].ret[1].num >= 0 /\ calc[1].ret[1].den > 0
                 /\ IF calc[1].op = "count_per_sec"
                    THEN calc[1].ret[1].num * CalcDelta
                           <= CalcB[1] * calc[1].ret[1].den
                    ELSE calc[1].ret[1].num * as_micros(CalcDelta)
                           <= CalcB[1] * 100 * calc[1].ret[1].den

\* A rate was asked for a counter that went from its largest value to 1.
C24_Witness ==
  /\ calc /= None
  /\ calc[1].op = "count_per_sec"
  /\ calc[1].args[1] = Some(MaxCount) /\ calc[1].args[2] = Some(1)
  /\ calc[1].ret = None

C26_NoPredecessor ==
  (/\ calc /= None
   /\ \/ calc[1].op = "to_model" /\ calc[1].args.older_sample = None
      \/ calc[1].op = "update_model" /\ calc[1].args[3] = None
      \/ calc[1].op = "get_option_rate" /\ calc[1].args[2] = None)
    => IF calc[1].op = "get_option_rate" THEN calc[1].ret = None
       ELSE /\ calc[1].ret.usage_pct = None
            /\ calc[1].ret.events_per_sec = None
            /\ calc[1].ret.memory_current =
                 IF calc[1].op = "to_model"
                 THEN calc[1].args.newer_sample.memory_current
                 ELSE calc[1].args[1].memory_current

\* A package without an older sample whose newer sample has every counter
\* gave a Model with the gauge and without rates.
C26_Witness ==
  /\ calc /= None
  /\ calc[1].op = "to_model"
  /\ calc[1].args.older_sample = None
  /\ calc[1].args.newer_sample.usage_usec = Some(MaxCount)
  /\ calc[1].args.newer_sample.events = Some(MaxCount)
  /\ calc[1].ret.memory_current = Some(1)
  /\ calc[1].ret.usage_pct = None

\* The sum of the operands that are present, None when there is none.
RECURSIVE SumPresent(_)
SumPresent(operands) ==
  IF operands = <<>> THEN None
  ELSE LET rest == SumPresent(Tail(operands)) IN
       IF Head(operands) = None THEN rest
       ELSE IF rest = None THEN Head(operands)
       ELSE Some(Head(operands)[1] + rest[1])

\* C28: opt_add takes a missing operand as the identity: opt_add(a, None) = a,
\* opt_add(None, b) = b, opt_add(a, b) = a + b, absent only when both are;
\* folded over contributors it gives the sum of those present, and it is
\* commutative and associative.
C28_OptAdd ==
  (calc /= None /\ calc[1].op = "opt_add") =>
    LET a == calc[1].args[1]
        b == calc[1].args[2]
        c == calc[1].args[3]
        ret == calc[1].ret
    IN /\ b = None => ret.ab = a
       /\ a = None => ret.ab = b
       /\ (a /= None /\ b /= None) => ret.ab = Some(a[1] + b[1])
       /\ ret.ab = None <=> (a = None /\ b = None)
       /\ ret.ab = ret.ba
       /\ ret.ab_c = ret.a_bc
       /\ ret.ab_c = SumPresent(<<a, b, c>>)

\* Three contributors of which the second is unavailable.
C28_Witness ==
  /\ calc /= None
  /\ calc[1].op = "opt_add"
  /\ calc[1].args = <<Some(3), None, Some(MaxCount)>>
  /\ calc[1].ret.ab_c = Some(3 + MaxCount)

\* C29: opt_multiply gives the product a * b when both operands are present
\* and is absent when either is.
C29_OptMultiply ==
  (calc /= None /\ calc[1].op = "opt_multiply") =>
    LET a == calc[1].args[1]
        b == calc[1].args[2]
    IN IF a /= None /\ b /= None
       THEN calc[1].ret = Some(a[1] * b[1])
       ELSE calc[1].ret = None

\* A weight was multiplied by a metric that is unavailable.
C29_Witness ==
  /\ calc /= None
  /\ calc[1].op = "opt_multiply"
  /\ calc[1].args = <<Some(3), None>>
  /\ calc[1].ret = None

\* ---------------------------------------------------------------------------
\* Properties of Collector::update_model
\* ---------------------------------------------------------------------------

\* The completed calls before the i-th that succeeded.
SucceededBefore(i) == {j \in 1..(i - 1) : updates[j].ret.ok}

\* The latest of a non-empty set of calls.
Latest(calls) == CHOOSE j \in calls : \A k \in calls : k <= j

\* C27: an update_model call that fails leaves the retained (sample, instant)
\* as it was; a call that succeeds builds its Model against the sample of the
\* latest earlier successful call, with the time elapsed since the instant
\* that call read, or against nothing when no earlier call succeeded, and
\* retains its own sample and instant.
C27_RetainedPredecessor ==
  /\ coll_last = IF SucceededBefore(Len(updates) + 1) = {} THEN None
                 ELSE updates[Latest(SucceededBefore(Len(updates) + 1))].after
  /\ \A i \in 1..Len(updates) :
       LET u == updates[i]
           earlier == SucceededBefore(i)
       IN IF u.ret.ok
          THEN /\ u.after = Some(<<u.ret.val.sample, u.now>>)
               /\ u.ret.val.last =
                    IF earlier = {} THEN None
                    ELSE LET prev == updates[Latest(earlier)]
                         IN Some(<<prev.ret.val.sample, u.now - prev.now>>)
          ELSE u.after = u.before

\* A success, a failure and a second success whose Model is built against the
\* different sample of the first, two clock readings earlier.
C27_Witness ==
  /\ Len(updates) = 3
  /\ updates[1].ret.ok
  /\ ~updates[2].ret.ok
  /\ updates[2].before /= None
  /\ updates[3].ret.ok
  /\ updates[3].ret.val.last = Some(<<updates[1].ret.val.sample, 2>>)
  /\ updates[3].ret.val.sample /= updates[1].ret.val.sample

\* ---------------------------------------------------------------------------
\* Properties of repeated navigation
\* ---------------------------------------------------------------------------

\* C30: from an initialized cursor, every advance(Forward) that returns a
\* Model leaves the cursor at a strictly later timestamp than it had before
\* the call, and every advance(Reverse) that returns a Model at a strictly
\* earlier one.
C30_StrictMovement ==
  [][(last'.op = "advance" /\ last'.ret /= None) =>
       IF last'.dir = Forward
       THEN target_timestamp'.secs > target_timestamp.secs
       ELSE target_timestamp'.secs < target_timestamp.secs]_vars

\* What the seek at target_timestamp gives instead: an advance from a cursor
\* that stands on a stored sample returns the Model of that same sample and
\* leaves the cursor where it is, in either direction.
C30_ExactMatchStays ==
  [][(last'.op = "advance" /\ ~last'.panic /\ ~raise_error
        /\ target_timestamp.secs \in Stored) =>
       /\ last'.ret /= None
       /\ target_timestamp' = target_timestamp
       /\ cached_sample' = Some(target_timestamp.secs)]_vars

\* ---------------------------------------------------------------------------
\* Properties of a store that fails
\* ---------------------------------------------------------------------------

\* The i-th store query of the last operation returned an error.
QueryFailed(i) ==
  /\ i <= Len(last.queries)
  /\ ~get_sample_at_timestamp(last.queries[i].ts, last.queries[i].dir).ok

\* C31: an error of the store is logged and turned into an absent result,
\* never propagated.  A paired seek whose target seek fails returns absent
\* after that one query; an initialize whose seek fails leaves the cursor
\* empty at its starting timestamp; a paired seek whose predecessor seek
\* alone fails returns the package of the target with older_sample absent
\* and duration zero.
C31_StoreErrorAbsorbed ==
  /\ (last.op \in {"adjacent", "initialize"} /\ QueryFailed(1)) =>
       /\ ~last.panic /\ ~panicked
       /\ last.ret = None
       /\ Len(last.queries) = 1
       /\ last.logs = 1
       /\ last.op = "initialize" =>
            /\ cached_sample = None
            /\ target_timestamp = last.ts
  /\ (last.op = "adjacent" /\ ~QueryFailed(1) /\ QueryFailed(2)) =>
       LET target == get_sample_at_timestamp(last.ts, last.dir).val[1] IN
       /\ ~last.panic /\ ~panicked
       /\ last.logs = 1
       /\ last.ret = Some([older_sample |-> None, newer_sample |-> target[2],
                           timestamp |-> target[1], duration |-> 0])
       /\ last.model = to_model(last.ret[1])

\* A paired seek found its target while the seek for the predecessor, which
\* the store holds, failed.
C31_Witness ==
  /\ last.op = "adjacent"
  /\ ~QueryFailed(1)
  /\ QueryFailed(2)
  /\ last.ret /= None
  /\ \E x \in Stored : x < last.ret[1].timestamp.secs

\* An initialize whose seek failed over a store holding a sample it would
\* have found.
C31_WitnessInitialize ==
  /\ last.op = "initialize"
  /\ QueryFailed(1)
  /\ \E x \in Stored : x >= last.ts.secs

\* C32: a paired seek never meets "time went backwards", and a package it
\* returns with a predecessor has the predecessor strictly before the target
\* and a duration of at least one second, which a rate can be divided by; a
\* package has duration zero exactly when it has no predecessor.
C32_PositiveDuration ==
  (last.op \in {"adjacent", "advance"}) =>
    /\ ~last.panic
    /\ (last.op = "adjacent" /\ last.ret /= None) =>
         LET pkg == last.ret[1] IN
         IF pkg.older_sample /= None
         THEN /\ pkg.older_sample[1] \in Stored
              /\ pkg.older_sample[1] < pkg.timestamp.secs
              /\ pkg.duration = pkg.timestamp.secs - pkg.older_sample[1]
              /\ pkg.duration >= 1
              /\ count_per_sec(Some(0), Some(1), pkg.duration)
                   = Some(Ratio(1, pkg.duration))
         ELSE pkg.duration = 0

\* A package of two samples stored one second apart, the shortest duration a
\* predecessor can give.
C32_Witness ==
  /\ last.op = "adjacent"
  /\ last.ret /= None
  /\ last.ret[1].older_sample /= None
  /\ last.ret[1].duration = 1

\* ---------------------------------------------------------------------------
\* Properties of a failed collection
\* ---------------------------------------------------------------------------

\* The entries of the exit buffer that a Sample holds.
ExitEntriesIn(processes) ==
  {processes[p][2] : p \in {q \in DOMAIN processes : processes[q][1] = "exit"}}

\* C33: when collect_sample returns, the entries it drained are not put back,
\* whether it returns a Sample or an error: the buffer is left as it is and
\* holds no drained entry, an error carries no Sample, and a Sample holds no
\* entry that an earlier call drained.
C33_FailedDrainLost ==
  [][(coll_pc = "drained" /\ coll_pc' = "idle") =>
       LET call == collected'[1]
           gone == {n \in 1..inserted : obtained[n] >= 1}
           earlier == gone \ EntriesOf(exit_pidmap)
       IN /\ exit_data' = exit_data
          /\ EntriesOf(exit_data') \cap gone = {}
          /\ exit_pidmap' = EmptyPidMap
          /\ IF call.ret.ok
             THEN ExitEntriesIn(call.ret.val.processes) \cap earlier = {}
             ELSE call.ret.val = None]_vars

\* A call drained the first entry and failed; the buffer holds only the entry
\* inserted since.
C33_Witness ==
  /\ collected /= None
  /\ ~collected[1].ret.ok
  /\ EntriesOf(collected[1].exit_pidmap) = {1}
  /\ EntriesOf(exit_data) = {2}
  /\ obtained[1] = 1

\* The Sample of a later call holds the second entry and not the first, which
\* an earlier call drained.
C33_WitnessNext ==
  /\ collected /= None
  /\ collected[1].ret.ok
  /\ obtained[1] = 1
  /\ EntriesOf(collected[1].exit_pidmap) = {2}
  /\ ExitEntriesIn(collected[1].ret.val.processes) = {2}

\* ---------------------------------------------------------------------------
\* Properties of the inode number and of the enumeration of children
\* ---------------------------------------------------------------------------

\* How many times the message msg is in the sequence logs.
CountOf(logs, msg) == Cardinality({i \in 1..Len(logs) : logs[i] = msg})

\* C34: a failure of any kind of the read of a node's inode number does not
\* abort the walk: the Sample is returned, every node the walk gets to is in
\* the tree with its counters, one whose read failed has inode_number absent,
\* and each failure is logged once.
C34_InodeFailureIsolated ==
  (/\ collected /= None
   /\ collected[1].env.fs /= {}
   /\ \A f \in collected[1].env.fs : f.read = "inode_number")
    => LET ret == collected[1].ret
           failures == {f \in collected[1].env.fs : Reached(f.path)}
       IN /\ ret.ok
          /\ CountOf(ret.logs, "inode_number") = Cardinality(failures)
          /\ \A path \in CgroupPaths :
               Reached(path) =>
                 LET node == NodeAt(ret.val.cgroup, path) IN
                 /\ node /= None
                 /\ node[1].inode_number = None <=>
                      \E f \in failures : f.path = path
                 /\ \A c \in CgroupCounters :
                      (c /= "io_stat" \/ collected[1].args.collect_io_stat)
                        => node[1][c] /= None
                 /\ CgroupChildren(path) /= <<>> => node[1].children /= None

\* The inode number of the cgroup a could not be read (EIO): the tree was
\* returned, a without inode number and with its child c, and one failure
\* was logged.
C34_Witness ==
  /\ collected /= None
  /\ collected[1].env.fs =
       {[path |-> <<"a">>, read |-> "inode_number", out |-> Fail(OtherIoError)]}
  /\ collected[1].args.cgroup_re = None
  /\ collected[1].ret.ok
  /\ NodeAt(collected[1].ret.val.cgroup, <<"a">>)[1].inode_number = None
  /\ NodeAt(collected[1].ret.val.cgroup, <<"a", "c">>)[1].inode_number /= None
  /\ CountOf(collected[1].ret.logs, "inode_number") = 1

\* The enumeration of the children of a node the walk gets to failed.
EnumerationFault(f) == f.read = "children" /\ Reached(f.path)

\* The two errors of a cgroup deleted while it is read.
Gone == {Fail(NotFoundError), Fail(NoDeviceError)}

\* C35: when the enumeration of a node's children fails with NotFound or
\* ENODEV the node stays in the tree with its counters and its children are
\* absent, not an empty map; an enumeration that fails in any other way, or a
\* hard failure of a read inside a child, fails the whole collection.
C35_ChildrenEnumeration ==
  (collected /= None /\ collected[1].env.fs /= {}) =>
    LET ret == collected[1].ret
        fs == collected[1].env.fs
    IN /\ (\A f \in fs : EnumerationFault(f) /\ f.out \in Gone) =>
            /\ ret.ok
            /\ \A f \in fs :
                 LET node == NodeAt(ret.val.cgroup, f.path) IN
                 /\ node /= None
                 /\ node[1].children = None
                 /\ \A c \in CgroupCounters :
                      (c /= "io_stat" \/ collected[1].args.collect_io_stat)
                        => node[1][c] /= None
            /\ \A path \in CgroupPaths :
                 (Reached(path) /\ \A f \in fs : f.path /= path) =>
                   /\ NodeAt(ret.val.cgroup, path) /= None
                   /\ NodeAt(ret.val.cgroup, path)[1].children /= None
       /\ (\E f \in fs : EnumerationFault(f) /\ f.out \notin Gone) =>
            ~ret.ok /\ ret.val = None
       /\ (\E f \in fs : /\ f.path /= <<>>
                         /\ CounterFault(f)
                         /\ f.out = Fail(OtherIoError)) =>
            ~ret.ok /\ ret.val = None

\* The cgroup a was deleted while its children were enumerated (ENODEV): the
\* tree has a without children, and so without c, and its sibling b.
C35_Witness ==
  /\ collected /= None
  /\ collected[1].env.fs =
       {[path |-> <<"a">>, read |-> "children", out |-> Fail(NoDeviceError)]}
  /\ collected[1].args.cgroup_re = None
  /\ collected[1].ret.ok
  /\ NodeAt(collected[1].ret.val.cgroup, <<"a">>) /= None
  /\ NodeAt(collected[1].ret.val.cgroup, <<"a">>)[1].children = None
  /\ NodeAt(collected[1].ret.val.cgroup, <<"a">>)[1].cpu_stat /= None
  /\ NodeAt(collected[1].ret.val.cgroup, <<"b">>) /= None

\* The enumeration of the children of a failed with EIO and the collection
\* returned an error.
C35_WitnessAbort ==
  /\ collected /= None
  /\ collected[1].env.fs =
       {[path |-> <<"a">>, read |-> "children", out |-> Fail(OtherIoError)]}
  /\ collected[1].args.cgroup_re = None
  /\ ~collected[1].ret.ok

\* ---------------------------------------------------------------------------
\* Properties of the network and disk counters
\* ---------------------------------------------------------------------------

\* C36: a failing read of the network counters, or of the disk counters when
\* they are collected, does not fail the collection: the Sample is returned
\* with default network counters or an empty disk map in its place, every
\* other field as read, and the failure is logged once.
C36_NetDiskIsolated ==
  (/\ collected /= None
   /\ collected[1].env.failed /= {}
   /\ collected[1].env.failed \subseteq {"netstat", "disk_stats"})
    => LET ret == collected[1].ret
           failed == collected[1].env.failed
           disabled == collected[1].args.disable_disk_stat
       IN /\ ret.ok
          /\ ret.val.netstats =
               IF "netstat" \in failed THEN "default" ELSE "netstat"
          /\ CountOf(ret.logs, "netstat") =
               IF "netstat" \in failed THEN 1 ELSE 0
          /\ ret.val.system.disks =
               IF disabled \/ "disk_stats" \in failed THEN <<>>
               ELSE DefaultDisks
          /\ CountOf(ret.logs, "disk_stats") =
               IF ~disabled /\ "disk_stats" \in failed THEN 1 ELSE 0
          /\ \A f \in {"stat", "meminfo", "vmstat", "hostname"} :
               ret.val.system[f] = f
          /\ \A f \in {"kernel_version", "os_release"} :
               ret.val.system[f] = Some(f)
          /\ DOMAIN ret.val.processes = collected[1].env.live
          /\ ret.val.cgroup.cpu_stat /= None

\* Neither the network counters nor the disk counters could be read while
\* disk statistics were collected: a Sample was returned with both defaults
\* and two failures logged.
C36_Witness ==
  /\ collected /= None
  /\ collected[1].env.failed = {"netstat", "disk_stats"}
  /\ ~collected[1].args.disable_disk_stat
  /\ collected[1].ret.ok
  /\ collected[1].ret.val.netstats = "default"
  /\ collected[1].ret.val.system.disks = <<>>
  /\ Len(collected[1].ret.logs) = 2

\* ------------------------------------------------------------------------
\* View::run: the main view stack and the keys 'p', 'c' and 'z'.

\* SortOrder
SortOrder == {"PID", "Name", "CPU", "Memory", "Disk"}

\* The names of the cgroups the cgroup view can have a row selected of; the
\* first is the selection View::new starts with.
CgroupNames == {"<root>", "a.slice", "b.slice"}

\* MainViewState
Cgroup == <<"Cgroup">>
Process == <<"Process">>
ProcessZoomedIntoCgroup(name) == <<"ProcessZoomedIntoCgroup", name>>

\* StackView::find_layer_from_name: the position, counted from the back, of
\* the layer of that name.
find_layer_from_name(stack, name) ==
  IF \E i \in 1..Len(stack) : stack[i] = name
  THEN Some(CHOOSE i \in 1..Len(stack) : stack[i] = name)
  ELSE None

\* StackView::move_to_front: the layer at the position becomes the last, the
\* others keep their order.
move_to_front(stack, position) ==
  SubSeq(stack, 1, position - 1) \o SubSeq(stack, position + 1, Len(stack))
    \o <<stack[position]>>

\* A key handler: find_layer_from_name(name).expect(..) and move_to_front,
\* and then, unless expect panicked, next_state stored and refresh(c) called
\* `refreshed` times.
key_handled(key, name, next_state, refreshed) ==
  LET position == find_layer_from_name(main_view_stack, name)
  IN  /\ last' = Op(key, target_timestamp, current_direction, None, <<>>, 0,
                    position = None)
      /\ panicked' = (position = None)
      /\ IF position = None
         THEN UNCHANGED <<main_view_stack, view_state, refreshes>>
         ELSE /\ main_view_stack' = move_to_front(main_view_stack, position[1])
              /\ view_state' =
                   [view_state EXCEPT !.main_view_state = next_state]
              /\ refreshes' = refreshed
      /\ UNCHANGED <<store_vars, cursor_vars, initialized, collector_vars>>

\* on_pre_event_inner('p', ..) and the callback it returns.
on_key_p ==
  /\ ~panicked
  /\ key_handled("p", "process_view_panel", Process, 0)

\* on_pre_event_inner('c', ..) and the callback it returns.
on_key_c ==
  /\ ~panicked
  /\ key_handled("c", "cgroup_view_panel", Cgroup, 0)

\* The match on current_state of the 'z' handler.
zoom_next_state_stay(current_state, current_selection) ==
  IF current_state[1] = "ProcessZoomedIntoCgroup"
  THEN current_state
  ELSE IF current_state = Cgroup
       THEN ProcessZoomedIntoCgroup(current_selection)
       ELSE Process

zoom_next_state(current_state, current_selection) ==
  IF current_state[1] = "ProcessZoomedIntoCgroup"
  THEN Cgroup
  ELSE IF current_state = Cgroup
       THEN ProcessZoomedIntoCgroup(current_selection)
       ELSE Process

\* The panel the 'z' handler brings to the front for next_state.
zoom_panel_process(next_state) == "process_view_panel"

zoom_panel(next_state) ==
  IF next_state = Cgroup THEN "cgroup_view_panel" ELSE "process_view_panel"

\* on_pre_event('z', ..)
on_key_z ==
  /\ ~panicked
  /\ LET next_state == zoom_next_state(view_state.main_view_state,
                                       view_state.current_selected_cgroup)
     IN  key_handled("z", zoom_panel(next_state), next_state, 1)

\* update_sort_order: the global callbacks of 'P', 'C', 'N', 'M' and 'D'.
update_sort_order(sort_order) ==
  /\ ~panicked
  /\ last' = Op("sort", target_timestamp, current_direction, None, <<>>, 0,
                FALSE)
  /\ IF view_state.sort_order /= sort_order
     THEN /\ view_state' = [view_state EXCEPT !.sort_order = sort_order]
          /\ refreshes' = 1
     ELSE /\ view_state' = view_state
          /\ refreshes' = 0
  /\ UNCHANGED <<panicked, main_view_stack>>
  /\ UNCHANGED <<store_vars, cursor_vars, initialized, collector_vars>>

\* The cgroup view stores the name of the row the user selects.
select_cgroup(name) ==
  /\ ~panicked
  /\ view_state.current_selected_cgroup /= name
  /\ last' = Op("select", target_timestamp, current_direction, None, <<>>, 0,
                FALSE)
  /\ view_state' = [view_state EXCEPT !.current_selected_cgroup = name]
  /\ refreshes' = 0
  /\ UNCHANGED <<panicked, main_view_stack>>
  /\ UNCHANGED <<store_vars, cursor_vars, initialized, collector_vars>>

NextView ==
  \/ on_key_p
  \/ on_key_c
  \/ on_key_z
  \/ \E sort_order \in SortOrder : update_sort_order(sort_order)
  \/ \E name \in CgroupNames : select_cgroup(name)

SpecView == InitCollector /\ [][NextView]_vars

\* C37: key 'z' takes Cgroup to ProcessZoomedIntoCgroup(the cgroup selected
\* at that moment), ProcessZoomedIntoCgroup back to Cgroup and leaves Process
\* as Process; key 'p' sets Process and key 'c' sets Cgroup from any state;
\* none of the three changes the model, the sort order, the filters, the
\* collapsed set or the selection.
C37_MainViewStateMachine ==
  [][LET before == view_state.main_view_state
         after ==
           CASE last'.op = "p" -> Process
             [] last'.op = "c" -> Cgroup
             [] last'.op = "z" /\ before = Cgroup ->
                  ProcessZoomedIntoCgroup(view_state.current_selected_cgroup)
             [] last'.op = "z" /\ before = Process -> Process
             [] last'.op = "z" /\ before \notin {Cgroup, Process} -> Cgroup
             [] OTHER -> before
     IN  last'.op \in {"p", "c", "z"} =>
           /\ view_state'.main_view_state = after
           /\ view_state'.model = view_state.model
           /\ view_state'.sort_order = view_state.sort_order
           /\ view_state'.cgroup_filter = view_state.cgroup_filter
           /\ view_state'.process_filter = view_state.process_filter
           /\ view_state'.collapsed_cgroups = view_state.collapsed_cgroups
           /\ view_state'.current_selected_cgroup
                = view_state.current_selected_cgroup]_vars

\* 'z' was pressed in the cgroup view with a.slice selected and the
\* processes sorted by CPU.
C37_Witness ==
  /\ last.op = "z"
  /\ view_state.main_view_state = ProcessZoomedIntoCgroup("a.slice")
  /\ view_state.current_selected_cgroup = "a.slice"
  /\ view_state.sort_order = "CPU"

\* C38: after any sequence of key events from the initial view, the cgroup
\* panel is at the front of the main view stack exactly when the state is
\* Cgroup, and the process panel exactly when the state is Process or
\* ProcessZoomedIntoCgroup.
C38_FrontPanelAgrees ==
  /\ main_view_stack[Len(main_view_stack)] = "cgroup_view_panel"
       <=> view_state.main_view_state = Cgroup
  /\ main_view_stack[Len(main_view_stack)] = "process_view_panel"
       <=> view_state.main_view_state[1]
             \in {"Process", "ProcessZoomedIntoCgroup"}

\* 'z' was pressed in a zoomed view: the cgroup panel is back at the front.
C38_Witness ==
  /\ last.op = "z"
  /\ view_state.main_view_state = Cgroup
  /\ main_view_stack = <<"process_view_panel", "cgroup_view_panel">>

\* 'p' was pressed: the process panel is at the front.
C38_WitnessProcess ==
  /\ last.op = "p"
  /\ view_state.main_view_state = Process
  /\ main_view_stack = <<"cgroup_view_panel", "process_view_panel">>

====
